---- MODULE Spec2Model ----
(***************************************************************************)
(* Model of ase/geometry/bravais.py: the Bravais lattice family types,     *)
(* their variant registry, the special-point tables and the classifier     *)
(* get_bravais_lattice.                                                    *)
(*                                                                         *)
(* Numbers.  Python floats are modelled as fixed-point integers:           *)
(*   - a length is an integer number of ticks, one tick = 0.1 length unit; *)
(*   - an angle is an integer number of ticks, one tick = 0.1 degree;      *)
(*   - a scalar product is an integer number of square ticks;              *)
(*   - a cosine or sine is an integer scaled by CosScale.                  *)
(* The tolerance eps of a lattice object (2e-4) is far below one tick; it  *)
(* is kept in units of 1e-4 and every comparison that uses it is scaled    *)
(* accordingly in the operator that makes it.                              *)
(***************************************************************************)
EXTENDS Integers, Sequences, FiniteSets, TLC

VARIABLES
    call,     \* the constructor call made: the family and its arguments
    lat,      \* the lattice object the call produced (NoLattice when none)
    exc,      \* the exception raised by the last operation ("none" when it returned)
    out,      \* the value returned by the last operation on lat
    nums,     \* categorize_differences: the three numbers
    ceps,     \* categorize_differences / get_bravais_lattice: the eps argument (ticks)
    cat,      \* categorize_differences: the returned triple, or the failed assertion
    uc,       \* get_bravais_lattice: the (reduced) input cell, a 3x3 array in ticks
    loc,      \* get_bravais_lattice: the locals computed before the first test
    pc,       \* get_bravais_lattice: the test the call is about to run
    caught,   \* get_bravais_lattice: the exception that check() caught
    ret       \* get_bravais_lattice: how the call ended

vars == <<call, lat, exc, out, nums, ceps, cat, uc, loc, pc, caught, ret>>

----------------------------------------------------------------------------
(* Fixed-point arithmetic                                                  *)

TicksPerUnit == 10

CosScale == 10000

Abs(x) == IF x < 0 THEN -x ELSE x

Min2(x, y) == IF x < y THEN x ELSE y

Max2(x, y) == IF x < y THEN y ELSE x

\* Rounded division of integers, y > 0 (ties away from zero).
RDiv(x, y) == IF x >= 0 THEN (x + y \div 2) \div y ELSE -((y \div 2 - x) \div y)

RECURSIVE SqrtSearch(_, _, _)
SqrtSearch(n, lo, hi) ==
    IF lo >= hi THEN lo
    ELSE LET mid == (lo + hi + 1) \div 2
         IN  IF mid * mid <= n THEN SqrtSearch(n, mid, hi)
             ELSE SqrtSearch(n, lo, mid - 1)

\* np.sqrt on a non-negative fixed-point square: floor of the square root.
ISqrt(n) == SqrtSearch(n, 0, Min2(n, 46340))

\* np.sqrt rounded to the nearest integer.
ISqrtR(n) == LET r == ISqrt(n) IN IF n - r * r > r THEN r + 1 ELSE r

----------------------------------------------------------------------------
(* np.cos and np.sin on the grid of tenths of a degree                     *)

\* np.cos of an angle given in ticks (0..1800) to eight decimals (scale
\* CosScale^2): the Taylor series of cos and sin on 0..45 degrees.
Cos8(t) ==
    LET Fine == CosScale * CosScale
        \* a * b / Fine for 0 <= a, b <= Fine, without leaving 32 bits
        MulFine(a, b) ==
            (a \div CosScale) * (b \div CosScale)
                + ((a \div CosScale) * (b % CosScale) + (a % CosScale) * (b \div CosScale)
                   + ((a % CosScale) * (b % CosScale)) \div CosScale) \div CosScale
        \* u tenths of a degree in radians, times Fine  (u * _degrees / 10)
        RadFine(u) == u * 174533 - (u * 75) \div 1000
        \* one step of Horner's rule: 1 - x2 * h / d
        Horner(x2, h, d) == Fine - MulFine(x2, h) \div d
        \* cos(x) times Fine from x2 = x^2
        CosPoly(x2) ==
            Horner(x2, Horner(x2, Horner(x2, Horner(x2,
                Horner(x2, Fine - x2 \div 132, 90), 56), 30), 12), 2)
        \* sin(x) times Fine from x and x2 = x^2
        SinPoly(x, x2) ==
            MulFine(x, Horner(x2, Horner(x2, Horner(x2, Horner(x2,
                Fine - x2 \div 110, 72), 42), 20), 6))
        CosFine(u) == CosPoly(MulFine(RadFine(u), RadFine(u)))
        SinFine(u) == SinPoly(RadFine(u), MulFine(RadFine(u), RadFine(u)))
        \* cos of u tenths of a degree, 0 <= u <= 900
        Quadrant(u) == IF u <= 450 THEN CosFine(u) ELSE SinFine(900 - u)
    IN  (IF t > 900 THEN -1 ELSE 1) * Quadrant(IF t > 900 THEN 1800 - t ELSE t)

\* np.cos of an angle given in ticks (0..1800), scaled by CosScale and
\* rounded.
Cos4(t) == RDiv(Cos8(t), CosScale)


\* np.sin of an angle given in ticks (0..1800), scaled by CosScale.
Sin4(t) == Cos4(Abs(900 - t))

RECURSIVE ArcSearch(_, _, _)
ArcSearch(c, lo, hi) ==
    IF lo >= hi THEN lo
    ELSE LET mid == (lo + hi + 1) \div 2
         IN  IF Cos4(mid) >= c THEN ArcSearch(c, mid, hi)
             ELSE ArcSearch(c, lo, mid - 1)

\* np.arccos(c) * 180 / pi in ticks, c scaled by CosScale: the angle on the
\* grid whose cosine is nearest to c.
ArcCosTicks(c) ==
    LET Pick(cc, hi) ==     \* hi is the last t with Cos4(t) >= cc
            IF cc = CosScale THEN 0
            ELSE IF hi = 1800 THEN 1800
            ELSE IF Cos4(hi) - cc <= cc - Cos4(hi + 1) THEN hi ELSE hi + 1
        Clamp(x) == Max2(-CosScale, Min2(CosScale, x))
    IN  Pick(Clamp(c), ArcSearch(Clamp(c), 0, 1800))

----------------------------------------------------------------------------
(* Path strings.  A Python string is a sequence of one-character strings.  *)

Upper ==
    {"A", "B", "C", "D", "E", "F", "G", "H", "I", "J", "K", "L", "M",
     "N", "O", "P", "Q", "R", "S", "T", "U", "V", "W", "X", "Y", "Z"}

Digit == {"0", "1", "2", "3", "4", "5", "6", "7", "8", "9"}

RECURSIVE SplitComma(_, _, _)
\* str.split(','): the segments of s, acc being the segment under way.
SplitComma(s, acc, done) ==
    IF s = <<>> THEN Append(done, acc)
    ELSE IF Head(s) = "," THEN SplitComma(Tail(s), <<>>, Append(done, acc))
    ELSE SplitComma(Tail(s), Append(acc, Head(s)), done)

InvalidPath == << <<"!">> >>

RECURSIVE Tokenize_mut(_)
Tokenize_mut(seg) ==
    IF seg = <<>> THEN <<>>
    ELSE IF Head(seg) \notin Upper THEN Tokenize_mut(Tail(seg))
    ELSE <<<<Head(seg)>>>> \o Tokenize_mut(Tail(seg))

RECURSIVE Tokenize(_)
\* The labels of one segment: an uppercase letter optionally followed by one
\* digit.  The result is InvalidPath when the segment does not follow the grammar.
Tokenize(seg) ==
    IF seg = <<>> THEN <<>>
    ELSE IF Head(seg) \notin Upper THEN InvalidPath
    ELSE LET two == Len(seg) >= 2 /\ seg[2] \in Digit
             label == IF two THEN <<seg[1], seg[2]>> ELSE <<seg[1]>>
             rest == Tokenize(IF two THEN Tail(Tail(seg)) ELSE Tail(seg))
         IN  IF rest = InvalidPath THEN InvalidPath ELSE <<label>> \o rest

\* ase.dft.kpoints.parse_path_string: the list of label lists of a path string.
parse_path_string(s) ==
    LET segs == SplitComma(s, <<>>, <<>>)
    IN  [i \in 1..Len(segs) |-> Tokenize(segs[i])]

----------------------------------------------------------------------------
(* The registry filled by the @bravais decorator                             *)

Families_mut ==
    <<"CUB", "FCC", "BCC", "TET", "BCT", "ORC", "ORCF", "ORCI", "ORCC", "HEX", "RHL", "MCL", "MCLC", "MCLC">>

Families ==
    <<"CUB", "FCC", "BCC", "TET", "BCT", "ORC", "ORCF", "ORCI", "ORCC", "HEX", "RHL", "MCL", "MCLC", "TRI">>

parameters ==
    [CUB |-> <<"a">>,
     FCC |-> <<"a">>,
     BCC |-> <<"a">>,
     TET |-> <<"a", "c">>,
     BCT |-> <<"a", "c">>,
     ORC |-> <<"a", "b", "c">>,
     ORCF |-> <<"a", "b", "c">>,
     ORCI |-> <<"a", "b", "c">>,
     ORCC |-> <<"a", "b", "c">>,
     HEX |-> <<"a", "c">>,
     RHL |-> <<"a", "alpha">>,
     MCL |-> <<"a", "b", "c", "alpha">>,
     MCLC |-> <<"a", "b", "c", "alpha">>,
     TRI |-> <<"a", "b", "c", "alpha", "beta", "gamma">>]

variants ==
    [CUB |-> <<
        [name |-> "CUB",
         special_point_names |-> <<"G", "X", "R", "M">>,
         special_path |-> <<"G", "X", "M", "G", "R", "X", ",", "M", "R">>]
      >>,
     FCC |-> <<
        [name |-> "FCC",
         special_point_names |-> <<"G", "K", "L", "U", "W", "X">>,
         special_path |-> <<"G", "X", "W", "K", "G", "L", "U", "W", "L", "K", ",", "U", "X">>]
      >>,
     BCC |-> <<
        [name |-> "BCC",
         special_point_names |-> <<"G", "H", "P", "N">>,
         special_path |-> <<"G", "H", "N", "G", "P", "H", ",", "P", "N">>]
      >>,
     TET |-> <<
        [name |-> "TET",
         special_point_names |-> <<"G", "A", "M", "R", "X", "Z">>,
         special_path |-> <<"G", "X", "M", "G", "Z", "R", "A", "Z", ",", "X", "R", ",", "M", "A">>]
      >>,
     BCT |-> <<
        [name |-> "BCT1",
         special_point_names |-> <<"G", "M", "N", "P", "X", "Z", "Z", "1">>,
         special_path |-> <<"G", "X", "M", "G", "Z", "P", "N", "Z", "1", "M", ",", "X", "P">>],
        [name |-> "BCT2",
         special_point_names |-> <<"G", "N", "P", "S", "S", "1", "X", "Y", "Y", "1", "Z">>,
         special_path |-> <<"G", "X", "Y", "S", "G", "Z", "S", "1", "N", "P", "Y", "1", "Z", ",", "X", "P">>]
      >>,
     ORC |-> <<
        [name |-> "ORC",
         special_point_names |-> <<"G", "R", "S", "T", "U", "X", "Y", "Z">>,
         special_path |-> <<"G", "X", "S", "Y", "G", "Z", "U", "R", "T", "Z", ",", "Y", "T", ",", "U", "X", ",", "S", "R">>]
      >>,
     ORCF |-> <<
        [name |-> "ORCF1",
         special_point_names |-> <<"G", "A", "A", "1", "L", "T", "X", "X", "1", "Y", "Z">>,
         special_path |-> <<"G", "Y", "T", "Z", "G", "X", "A", "1", "Y", ",", "T", "X", "1", ",", "X", "A", "Z", ",", "L", "G">>],
        [name |-> "ORCF2",
         special_point_names |-> <<"G", "C", "C", "1", "D", "D", "1", "L", "H", "H", "1", "X", "Y", "Z">>,
         special_path |-> <<"G", "Y", "C", "D", "X", "G", "Z", "D", "1", "H", "C", ",", "C", "1", "Z", ",", "X", "H", "1", ",", "H", "Y", ",", "L", "G">>],
        [name |-> "ORCF3",
         special_point_names |-> <<"G", "A", "A", "1", "L", "T", "X", "X", "1", "Y", "Z">>,
         special_path |-> <<"G", "Y", "T", "Z", "G", "X", "A", "1", "Y", ",", "X", "A", "Z", ",", "L", "G">>]
      >>,
     ORCI |-> <<
        [name |-> "ORCI",
         special_point_names |-> <<"G", "L", "L", "1", "L", "2", "R", "S", "T", "W", "X", "X", "1", "Y", "Y", "1", "Z">>,
         special_path |-> <<"G", "X", "L", "T", "W", "R", "X", "1", "Z", "G", "Y", "S", "W", ",", "L", "1", "Y", ",", "Y", "1", "Z">>]
      >>,
     ORCC |-> <<
        [name |-> "ORCC",
         special_point_names |-> <<"G", "A", "A", "1", "R", "S", "T", "X", "X", "1", "Y", "Z">>,
         special_path |-> <<"G", "X", "S", "R", "A", "Z", "G", "Y", "X", "1", "A", "1", "T", "Y", ",", "Z", "T">>]
      >>,
     HEX |-> <<
        [name |-> "HEX",
         special_point_names |-> <<"G", "M", "K", "A", "L", "H">>,
         special_path |-> <<"G", "M", "K", "G", "A", "L", "H", "A", ",", "L", "M", ",", "K", "H">>]
      >>,
     RHL |-> <<
        [name |-> "RHL1",
         special_point_names |-> <<"G", "B", "B", "1", "F", "L", "L", "1", "P", "P", "1", "P", "2", "Q", "X", "Z">>,
         special_path |-> <<"G", "L", "B", "1", ",", "B", "Z", "G", "X", ",", "Q", "F", "P", "1", "Z", ",", "L", "P">>],
        [name |-> "RHL2",
         special_point_names |-> <<"G", "F", "L", "P", "P", "1", "Q", "Q", "1", "Z">>,
         special_path |-> <<"G", "P", "Z", "Q", "G", "F", "P", "1", "Q", "1", "L", "Z">>]
      >>,
     MCL |-> <<
        [name |-> "MCL",
         special_point_names |-> <<"G", "A", "C", "D", "D", "1", "E", "H", "H", "1", "H", "2", "M", "M", "1", "M", "2", "X", "Y", "Y", "1", "Z">>,
         special_path |-> <<"G", "Y", "H", "C", "E", "M", "1", "A", "X", "H", "1", ",", "M", "D", "Z", ",", "Y", "D">>]
      >>,
     MCLC |-> <<
        [name |-> "MCLC1",
         special_point_names |-> <<"G", "N", "N", "1", "F", "F", "1", "F", "2", "F", "3", "I", "I", "1", "L", "M", "X", "X", "1", "X", "2", "Y", "Y", "1", "Z">>,
         special_path |-> <<"G", "Y", "F", "L", "I", ",", "I", "1", "Z", "F", "1", ",", "Y", "X", "1", ",", "X", "G", "N", ",", "M", "G">>],
        [name |-> "MCLC2",
         special_point_names |-> <<"G", "N", "N", "1", "F", "F", "1", "F", "2", "F", "3", "I", "I", "1", "L", "M", "X", "X", "1", "X", "2", "Y", "Y", "1", "Z">>,
         special_path |-> <<"G", "Y", "F", "L", "I", ",", "I", "1", "Z", "F", "1", ",", "N", "G", "M">>],
        [name |-> "MCLC3",
         special_point_names |-> <<"G", "F", "F", "1", "F", "2", "H", "H", "1", "H", "2", "I", "M", "N", "N", "1", "X", "Y", "Y", "1", "Y", "2", "Y", "3", "Z">>,
         special_path |-> <<"G", "Y", "F", "H", "Z", "I", "F", "1", ",", "H", "1", "Y", "1", "X", "G", "N", ",", "M", "G">>],
        [name |-> "MCLC4",
         special_point_names |-> <<"G", "F", "F", "1", "F", "2", "H", "H", "1", "H", "2", "I", "M", "N", "N", "1", "X", "Y", "Y", "1", "Y", "2", "Y", "3", "Z">>,
         special_path |-> <<"G", "Y", "F", "H", "Z", "I", ",", "H", "1", "Y", "1", "X", "G", "N", ",", "M", "G">>],
        [name |-> "MCLC5",
         special_point_names |-> <<"G", "F", "F", "1", "F", "2", "H", "H", "1", "H", "2", "I", "I", "1", "L", "M", "N", "N", "1", "X", "Y", "Y", "1", "Y", "2", "Y", "3", "Z">>,
         special_path |-> <<"G", "Y", "F", "L", "I", ",", "I", "1", "Z", "H", "F", "1", ",", "H", "1", "Y", "1", "X", "G", "N", ",", "M", "G">>]
      >>,
     TRI |-> <<
        [name |-> "TRI1a",
         special_point_names |-> <<"G", "L", "M", "N", "R", "X", "Y", "Z">>,
         special_path |-> <<"X", "G", "Y", ",", "L", "G", "Z", ",", "N", "G", "M", ",", "R", "G">>],
        [name |-> "TRI2a",
         special_point_names |-> <<"G", "L", "M", "N", "R", "X", "Y", "Z">>,
         special_path |-> <<"X", "G", "Y", ",", "L", "G", "Z", ",", "N", "G", "M", ",", "R", "G">>],
        [name |-> "TRI1b",
         special_point_names |-> <<"G", "L", "M", "N", "R", "X", "Y", "Z">>,
         special_path |-> <<"X", "G", "Y", ",", "L", "G", "Z", ",", "N", "G", "M", ",", "R", "G">>],
        [name |-> "TRI2b",
         special_point_names |-> <<"G", "L", "M", "N", "R", "X", "Y", "Z">>,
         special_path |-> <<"X", "G", "Y", ",", "L", "G", "Z", ",", "N", "G", "M", ",", "R", "G">>]
      >>]
----------------------------------------------------------------------------
(* Special points.  A point is a row of three coordinate expressions, kept   *)
(* as the source writes them.                                                *)

BCT_points1_mut ==
    <<<<"0", "0", "0">>,
      <<"-.5", ".5", ".5">>,
      <<"0.", ".5", "0.">>,
      <<".25", ".25", ".25">>,
      <<"0.", "0.", ".5">>,
      <<"eta", "eta", "-eta">>>>

BCT_points1 ==
    <<<<"0", "0", "0">>,
      <<"-.5", ".5", ".5">>,
      <<"0.", ".5", "0.">>,
      <<".25", ".25", ".25">>,
      <<"0.", "0.", ".5">>,
      <<"eta", "eta", "-eta">>,
      <<"-eta", "1-eta", "eta">>>>

\* The tables of the other _special_points methods, each under the name of
\* its family and its number among the family's tables.
points_tables ==
    [
     BCT_points2 |->
        <<<<"0.", ".0", "0.">>,
          <<"0.", ".5", "0.">>,
          <<".25", ".25", ".25">>,
          <<"-eta", "eta", "eta">>,
          <<"eta", "1-eta", "-eta">>,
          <<"0.", "0.", ".5">>,
          <<"-zeta", "zeta", ".5">>,
          <<".5", ".5", "-zeta">>,
          <<".5", ".5", "-.5">>>>,
     ORCF_points1 |->
        <<<<"0", "0", "0">>,
          <<".5", ".5+zeta", "zeta">>,
          <<".5", ".5-zeta", "1-zeta">>,
          <<".5", ".5", ".5">>,
          <<"1.", ".5", ".5">>,
          <<"0.", "eta", "eta">>,
          <<"1.", "1-eta", "1-eta">>,
          <<".5", "0", ".5">>,
          <<".5", ".5", "0">>>>,
     ORCF_points2 |->
        <<<<"0", "0", "0">>,
          <<".5", ".5-eta", "1-eta">>,
          <<".5", ".5+eta", "eta">>,
          <<".5-delta", ".5", "1-delta">>,
          <<".5+delta", ".5", "delta">>,
          <<".5", ".5", ".5">>,
          <<"1-phi", ".5-phi", ".5">>,
          <<"phi", ".5+phi", ".5">>,
          <<"0.", ".5", ".5">>,
          <<".5", "0.", ".5">>,
          <<".5", ".5", "0.">>>>,
     ORCI_points1 |->
        <<<<"0.", "0.", "0.">>,
          <<"-mu", "mu", ".5-delta">>,
          <<"mu", "-mu", ".5+delta">>,
          <<".5-delta", ".5+delta", "-mu">>,
          <<"0", ".5", "0">>,
          <<".5", "0", "0">>,
          <<"0.", "0.", ".5">>,
          <<".25", ".25", ".25">>,
          <<"-zeta", "zeta", "zeta">>,
          <<"zeta", "1-zeta", "-zeta">>,
          <<"eta", "-eta", "eta">>,
          <<"1-eta", "eta", "-eta">>,
          <<".5", ".5", "-.5">>>>,
     ORCC_points1 |->
        <<<<"0", "0", "0">>,
          <<"zeta", "zeta", ".5">>,
          <<"-zeta", "1-zeta", ".5">>,
          <<"0", ".5", ".5">>,
          <<"0", ".5", "0">>,
          <<"-.5", ".5", ".5">>,
          <<"zeta", "zeta", "0">>,
          <<"-zeta", "1-zeta", "0">>,
          <<"-.5", ".5", "0">>,
          <<"0", "0", ".5">>>>,
     RHL_points1 |->
        <<<<"0", "0", "0">>,
          <<"eta", ".5", "1-eta">>,
          <<".5", "1-eta", "eta-1">>,
          <<".5", ".5", "0">>,
          <<".5", "0", "0">>,
          <<"0", "0", "-.5">>,
          <<"eta", "nu", "nu">>,
          <<"1-nu", "1-nu", "1-eta">>,
          <<"nu", "nu", "eta-1">>,
          <<"1-nu", "nu", "0">>,
          <<"nu", "0", "-nu">>,
          <<".5", ".5", ".5">>>>,
     RHL_points2 |->
        <<<<"0", "0", "0">>,
          <<".5", "-.5", "0">>,
          <<".5", "0", "0">>,
          <<"1-nu", "-nu", "1-nu">>,
          <<"nu", "nu-1", "nu-1">>,
          <<"eta", "eta", "eta">>,
          <<"1-eta", "-eta", "-eta">>,
          <<".5", "-.5", ".5">>>>,
     MCL_points1 |->
        <<<<"0", "0", "0">>,
          <<".5", ".5", "0">>,
          <<"0", ".5", ".5">>,
          <<".5", "0", ".5">>,
          <<".5", "0", "-.5">>,
          <<".5", ".5", ".5">>,
          <<"0", "eta", "1-nu">>,
          <<"0", "1-eta", "nu">>,
          <<"0", "eta", "-nu">>,
          <<".5", "eta", "1-nu">>,
          <<".5", "1-eta", "nu">>,
          <<".5", "eta", "-nu">>,
          <<"0", ".5", "0">>,
          <<"0", "0", ".5">>,
          <<"0", "0", "-.5">>,
          <<".5", "0", "0">>>>,
     MCLC_points1 |->
        <<<<"0", "0", "0">>,
          <<".5", "0", "0">>,
          <<"0", "-.5", "0">>,
          <<"1-zeta", "1-zeta", "1-eta">>,
          <<"zeta", "zeta", "eta">>,
          <<"-zeta", "-zeta", "1-eta">>,
          <<"1-zeta", "-zeta", "1-eta">>,
          <<"phi", "1-phi", ".5">>,
          <<"1-phi", "phi-1", ".5">>,
          <<".5", ".5", ".5">>,
          <<".5", "0", ".5">>,
          <<"1-psi", "psi-1", "0">>,
          <<"psi", "1-psi", "0">>,
          <<"psi-1", "-psi", "0">>,
          <<".5", ".5", "0">>,
          <<"-.5", "-.5", "0">>,
          <<"0", "0", ".5">>>>,
     MCLC_points2 |->
        <<<<"0", "0", "0">>,
          <<"1-phi", "1-phi", "1-psi">>,
          <<"phi", "phi-1", "psi">>,
          <<"1-phi", "-phi", "1-psi">>,
          <<"zeta", "zeta", "eta">>,
          <<"1-zeta", "-zeta", "1-eta">>,
          <<"-zeta", "-zeta", "1-eta">>,
          <<".5", "-.5", ".5">>,
          <<".5", "0", ".5">>,
          <<".5", "0", "0">>,
          <<"0", "-.5", "0">>,
          <<".5", "-.5", "0">>,
          <<"mu", "mu", "delta">>,
          <<"1-mu", "-mu", "-delta">>,
          <<"-mu", "-mu", "-delta">>,
          <<"mu", "mu-1", "delta">>,
          <<"0", "0", ".5">>>>,
     MCLC_points3 |->
        <<<<"0", "0", "0">>,
          <<"nu", "nu", "omega">>,
          <<"1-nu", "1-nu", "1-omega">>,
          <<"nu", "nu-1", "omega">>,
          <<"zeta", "zeta", "eta">>,
          <<"1-zeta", "-zeta", "1-eta">>,
          <<"-zeta", "-zeta", "1-eta">>,
          <<"rho", "1-rho", ".5">>,
          <<"1-rho", "rho-1", ".5">>,
          <<".5", ".5", ".5">>,
          <<".5", "0", ".5">>,
          <<".5", "0", "0">>,
          <<"0", "-.5", "0">>,
          <<".5", "-.5", "0">>,
          <<"mu", "mu", "delta">>,
          <<"1-mu", "-mu", "-delta">>,
          <<"-mu", "-mu", "-delta">>,
          <<"mu", "mu-1", "delta">>,
          <<"0", "0", ".5">>>>,
     TRI_points1 |->
        <<<<"0.", "0.", "0.">>,
          <<".5", ".5", "0">>,
          <<"0", ".5", ".5">>,
          <<".5", "0", ".5">>,
          <<".5", ".5", ".5">>,
          <<".5", "0", "0">>,
          <<"0", ".5", "0">>,
          <<"0", "0", ".5">>>>,
     TRI_points2 |->
        <<<<"0", "0", "0">>,
          <<".5", "-.5", "0">>,
          <<"0", "0", ".5">>,
          <<"-.5", "-.5", ".5">>,
          <<"0", "-.5", ".5">>,
          <<"0", "-0.5", "0">>,
          <<".5", "0", "0">>,
          <<"-.5", "0", ".5">>>>
    ]

----------------------------------------------------------------------------
(* Lattice objects                                                         *)

\* The default of the eps keyword of BravaisLattice.__init__, in units of 1e-4.
DefaultEps == 2

NoLattice == [type |-> "none", p |-> [none |-> 0], eps |-> 0, variant |-> "none"]

NoValue == [kind |-> "none"]

Near90_mut(n, d, eps) == FALSE

\* |angle - 90 degrees| < eps for the angle whose cosine is n / d (d > 0) and
\* eps in units of 1e-4 degree: |n| / d < sin(eps * 1e-4 degree), where
\* 1 / sin(1e-4 degree) = 572958.
Near90(n, d, eps) ==
    LET q == (d \div 572958) * eps + ((d % 572958) * eps) \div 572958
        r == ((d % 572958) * eps) % 572958
    IN  Abs(n) < q \/ (Abs(n) = q /\ r > 0)

check_orc_mut(a, b, c) ==
    IF ~(a <= b /\ b <= c) THEN "UnconventionalLattice" ELSE "none"

check_orc(a, b, c) ==
    IF ~(a < b /\ b < c) THEN "UnconventionalLattice" ELSE "none"

check_mcl_mut(a, b, c, alpha) ==
    IF ~(a <= c /\ b <= c /\ alpha <= 900) THEN "UnconventionalLattice" ELSE "none"

check_mcl(a, b, c, alpha) ==
    IF ~(a <= c /\ b <= c /\ alpha < 900) THEN "UnconventionalLattice" ELSE "none"

\* SimpleBravaisLattice._variant_name
Simple_variant_name(type) ==
    IF Len(variants[type]) = 1
    THEN [exc |-> "none", name |-> variants[type][1].name]
    ELSE [exc |-> "AssertionError", name |-> "none"]

BCT_variant_name_mut(a, c) ==
    [exc |-> "none", name |-> IF c <= a THEN "BCT1" ELSE "BCT2"]

BCT_variant_name(a, c) ==
    [exc |-> "none", name |-> IF c < a THEN "BCT1" ELSE "BCT2"]

InvSq_mut(x) == 1000000000 \div (x * x * x)

\* 1 / (x * x) for x in ticks, in units of 1e-7 per square length unit.
InvSq(x) == 1000000000 \div (x * x)

ORCF_variant_name(a, b, c, eps) ==
    IF check_orc(a, b, c) # "none"
    THEN [exc |-> check_orc(a, b, c), name |-> "none"]
    ELSE IF a = 0 \/ b = 0 \/ c = 0
    THEN [exc |-> "ZeroDivisionError", name |-> "none"]
    ELSE LET diff == InvSq(a) - InvSq(b) - InvSq(c)
         IN  IF Abs(diff) < eps * 1000
             THEN [exc |-> "none", name |-> "ORCF3"]
             ELSE [exc |-> "none", name |-> IF diff > 0 THEN "ORCF1" ELSE "ORCF2"]

ORCI_variant_name(a, b, c) ==
    IF check_orc(a, b, c) # "none"
    THEN [exc |-> check_orc(a, b, c), name |-> "none"]
    ELSE [exc |-> "none", name |-> "ORCI"]

ORCC_variant_name(a, b, c) ==
    IF ~(a < b)
    THEN [exc |-> "UnconventionalLattice", name |-> "none"]
    ELSE Simple_variant_name("ORCC")

RHL_variant_name_mut(a, alpha) == [exc |-> "none", name |-> "RHL1"]

RHL_variant_name(a, alpha) ==
    [exc |-> "none", name |-> IF alpha < 900 THEN "RHL1" ELSE "RHL2"]

MCL_variant_name(a, b, c, alpha) ==
    IF check_mcl(a, b, c, alpha) # "none"
    THEN [exc |-> check_mcl(a, b, c, alpha), name |-> "none"]
    ELSE [exc |-> "none", name |-> "MCL"]

\* kgamma is the angle between the first two rows of the reciprocal of
\* MCLC._cell(a, b, c, alpha); its cosine is
\*   (a^2 - b^2 sin(alpha)^2) / (a^2 + b^2 sin(alpha)^2).
\* The squares are scaled by s = CosScale, or by less where a^2 and b^2 are
\* too large for that.
MCLC_variant_name(a, b, c, alpha, eps) ==
    LET s == IF a * a + b * b <= 200000 THEN CosScale ELSE CosScale \div 10
        Variant(kn, kd, num) ==
            IF Near90(kn, kd, eps) THEN "MCLC2"
            ELSE IF kn < 0 THEN "MCLC1"
            ELSE IF Abs(num - CosScale) < eps THEN "MCLC4"
            ELSE IF num < CosScale THEN "MCLC3"
            ELSE "MCLC5"
        Reciprocal(a2, b2, cosa, sina2) ==      \* sina2 is scaled by s
            Variant(a2 * s - b2 * sina2, a2 * s + b2 * sina2,
                    RDiv(b * cosa, c) + RDiv(b2 * sina2, RDiv(a2, CosScale \div s)))
        Squared(cosa, sina) ==
            Reciprocal(a * a, b * b, cosa, RDiv(sina * sina, (CosScale \div s) * CosScale))
    IN  IF check_mcl(a, b, c, alpha) # "none"
        THEN [exc |-> check_mcl(a, b, c, alpha), name |-> "none"]
        ELSE [exc |-> "none", name |-> Squared(Cos4(alpha), Sin4(alpha))]

\* The angles kalpha, kbeta, kgamma of the reciprocal of
\* Cell.new([a, b, c, alpha, beta, gamma]) have the cosines
\*   (cos(beta) cos(gamma) - cos(alpha)) / (sin(beta) sin(gamma))  and so on;
\* an angle is above 90 degrees iff its cosine is negative.
TRI_variant_name(a, b, c, alpha, beta, gamma, eps) ==
    LET Variant(na, nb, ng, dg) ==
            IF Near90(ng, dg, eps)
            THEN IF na < 0 /\ nb < 0 THEN [exc |-> "none", name |-> "TRI2a"]
                 ELSE IF na > 0 /\ nb > 0 THEN [exc |-> "none", name |-> "TRI2b"]
                 ELSE [exc |-> "AssertionError", name |-> "none"]
            ELSE IF na < 0 /\ nb < 0 /\ ng < 0
                 THEN [exc |-> "none", name |-> "TRI1a"]
            ELSE IF na > 0 /\ nb > 0 /\ ng > 0
                 THEN [exc |-> "none", name |-> "TRI1b"]
            ELSE [exc |-> "UnconventionalLattice", name |-> "none"]
        \* x * y for cosines x, y to eight decimals, without leaving 32 bits
        Prod(x, y) ==
            (IF (x < 0) = (y < 0) THEN 1 ELSE -1)
                * ((Abs(x) \div CosScale) * (Abs(y) \div CosScale)
                   + ((Abs(x) \div CosScale) * (Abs(y) % CosScale)
                      + (Abs(x) % CosScale) * (Abs(y) \div CosScale)
                      + ((Abs(x) % CosScale) * (Abs(y) % CosScale)) \div CosScale)
                     \div CosScale)
        \* the numerators of the three cosines, to eight decimals
        Numerators(ca, cb, cg, sa, sb) ==
            Variant(Prod(cb, cg) - ca, Prod(cg, ca) - cb, Prod(ca, cb) - cg,
                    Prod(sa, sb))
    IN  Numerators(Cos8(alpha), Cos8(beta), Cos8(gamma),
                   Cos8(Abs(900 - alpha)), Cos8(Abs(900 - beta)))

\* cls._variant_name(**p), dispatched on the class as Python's method
\* resolution does.
variant_name(type, p, eps) ==
    CASE type \in {"CUB", "FCC", "BCC", "TET", "ORC", "HEX"} -> Simple_variant_name(type)
      [] type = "BCT" -> BCT_variant_name(p.a, p.c)
      [] type = "ORCF" -> ORCF_variant_name(p.a, p.b, p.c, eps)
      [] type = "ORCI" -> ORCI_variant_name(p.a, p.b, p.c)
      [] type = "ORCC" -> ORCC_variant_name(p.a, p.b, p.c)
      [] type = "RHL" -> RHL_variant_name(p.a, p.alpha)
      [] type = "MCL" -> MCL_variant_name(p.a, p.b, p.c, p.alpha)
      [] type = "MCLC" -> MCLC_variant_name(p.a, p.b, p.c, p.alpha, eps)
      [] type = "TRI" -> TRI_variant_name(p.a, p.b, p.c, p.alpha, p.beta, p.gamma, eps)

SeqRange(s) == {s[i] : i \in 1..Len(s)}

\* BravaisLattice.__init__(self, **kwargs) without an eps keyword: the new
\* object, or the exception that ends the construction.
BravaisLattice_init(type, p) ==
    LET eps == DefaultEps
        Finish(v) ==        \* v is what self.get_variant() comes to
            IF DOMAIN p # SeqRange(parameters[type])
            THEN [exc |-> "AssertionError", lat |-> NoLattice]
            ELSE IF v.exc # "none"
            THEN [exc |-> v.exc, lat |-> NoLattice]
            ELSE [exc |-> "none",
                  lat |-> [type |-> type, p |-> p, eps |-> eps, variant |-> v.name]]
    IN  Finish(variant_name(type, p, eps))

RHL_init_mut(a, alpha) == BravaisLattice_init("RHL", [a |-> a, alpha |-> alpha])

\* RHL.__init__
RHL_init(a, alpha) ==
    IF alpha >= 1200
    THEN [exc |-> "ValueError", lat |-> NoLattice]
    ELSE BravaisLattice_init("RHL", [a |-> a, alpha |-> alpha])

\* A family constructor called with the arguments p that its signature
\* names: every family passes them on to BravaisLattice.__init__, RHL after
\* its own test of alpha.
New(type, p) ==
    IF type = "RHL" THEN RHL_init(p.a, p.alpha) ELSE BravaisLattice_init(type, p)

----------------------------------------------------------------------------
(* Special points of a lattice object                                      *)

\* The families for which the decorator finds a pointinfo table (ibz_points
\* or the hexagonal table) and sets cls.special_points.
HasPointInfo(type) == type \in {"CUB", "FCC", "BCC", "TET", "ORC", "HEX"}

RECURSIVE DictZip(_, _)
\* dict(zip(names, values)) for values[i] = <<type, names[i]>>: the items in
\* insertion order, a repeated key keeping its first position.
DictZip(type, names) ==
    IF names = <<>> THEN <<>>
    ELSE LET front == DictZip(type, SubSeq(names, 1, Len(names) - 1))
             key == names[Len(names)]
         IN  IF \E i \in 1..Len(front) : front[i][1] = key
             THEN front
             ELSE Append(front, <<key, type, key>>)

static_special_points_mut(type) ==
    IF Len(variants[type]) = 1 /\ HasPointInfo(type)
    THEN DictZip(type, Tail(variants[type][1].special_point_names))
    ELSE <<>>

\* cls.special_points as the decorator leaves it for a one-variant family:
\* one item per character of the special_point_names string (<<>> stands
\* for None).
static_special_points(type) ==
    IF Len(variants[type]) = 1 /\ HasPointInfo(type)
    THEN DictZip(type, variants[type][1].special_point_names)
    ELSE <<>>

VariantOf(type, name) ==
    CHOOSE v \in SeqRange(variants[type]) : v.name = name

\* self._special_points(variant=variant, **self._parameters)
special_points_formula(type, variant) ==
    CASE type \in {"CUB", "FCC", "BCC", "TET", "ORC", "HEX"} ->
            IF static_special_points(type) = <<>>
            THEN [exc |-> "AssertionError", points |-> <<>>]
            ELSE [exc |-> "none", points |-> static_special_points(type)]
      [] type = "BCT" ->
            IF variant = "BCT1" THEN [exc |-> "none", points |-> BCT_points1]
            ELSE [exc |-> "none", points |-> points_tables.BCT_points2]
      [] type = "ORCF" ->
            IF variant = "ORCF1" \/ variant = "ORCF3"
            THEN [exc |-> "none", points |-> points_tables.ORCF_points1]
            ELSE IF variant = "ORCF2" THEN [exc |-> "none", points |-> points_tables.ORCF_points2]
            ELSE [exc |-> "AssertionError", points |-> <<>>]
      [] type = "ORCI" -> [exc |-> "none", points |-> points_tables.ORCI_points1]
      [] type = "ORCC" -> [exc |-> "none", points |-> points_tables.ORCC_points1]
      [] type = "RHL" ->
            IF variant = "RHL1" THEN [exc |-> "none", points |-> points_tables.RHL_points1]
            ELSE [exc |-> "none", points |-> points_tables.RHL_points2]
      [] type = "MCL" -> [exc |-> "none", points |-> points_tables.MCL_points1]
      [] type = "MCLC" ->
            IF variant \in {"MCLC1", "MCLC2"} THEN [exc |-> "none", points |-> points_tables.MCLC_points1]
            ELSE IF variant \in {"MCLC3", "MCLC4"} THEN [exc |-> "none", points |-> points_tables.MCLC_points2]
            ELSE [exc |-> "none", points |-> points_tables.MCLC_points3]
      [] type = "TRI" ->
            IF variant = "TRI1a" \/ variant = "TRI2a"
            THEN [exc |-> "none", points |-> points_tables.TRI_points1]
            ELSE [exc |-> "none", points |-> points_tables.TRI_points2]

kpoint_labels_mut(l) == [exc |-> "none", labels |-> <<<<"G">>>>]

\* BravaisLattice.kpoint_labels
kpoint_labels(l) ==
    LET Single(labels) ==
            IF Len(labels) # 1
            THEN [exc |-> "AssertionError", labels |-> <<>>]
            ELSE [exc |-> "none", labels |-> labels[1]]
    IN  Single(parse_path_string(VariantOf(l.type, l.variant).special_point_names))

\* BravaisLattice.get_special_points_array
get_special_points_array(l) ==
    LET Points(sp, kl) ==
            IF sp.exc # "none" THEN [exc |-> sp.exc, points |-> <<>>]
            ELSE IF kl.exc # "none" THEN [exc |-> kl.exc, points |-> <<>>]
            ELSE IF Len(sp.points) # Len(kl.labels)
            THEN [exc |-> "AssertionError", points |-> <<>>]
            ELSE [exc |-> "none", points |-> sp.points]
    IN  Points(special_points_formula(l.type, l.variant), kpoint_labels(l))

----------------------------------------------------------------------------
(* Cells.  A cell is a 3x3 array of coordinates in ticks; nan marks an     *)
(* array that holds a NaN.                                                 *)

Half(x) == RDiv(x, 2)

Dot(u, v) == u[1] * v[1] + u[2] * v[2] + u[3] * v[3]

MkCell(r1, r2, r3) == [exc |-> "none", nan |-> FALSE, array |-> <<r1, r2, r3>>]

NanCell == [exc |-> "none", nan |-> TRUE, array |-> <<<<0, 0, 0>>, <<0, 0, 0>>, <<0, 0, 0>>>>]

RaisedCell(e) == [exc |-> e, nan |-> FALSE, array |-> <<<<0, 0, 0>>, <<0, 0, 0>>, <<0, 0, 0>>>>]

CUB_cell(a) == MkCell(<<a, 0, 0>>, <<0, a, 0>>, <<0, 0, a>>)

FCC_cell(a) ==
    MkCell(<<0, Half(a), Half(a)>>, <<Half(a), 0, Half(a)>>, <<Half(a), Half(a), 0>>)

BCC_cell(a) ==
    MkCell(<<-Half(a), Half(a), Half(a)>>, <<Half(a), -Half(a), Half(a)>>,
           <<Half(a), Half(a), -Half(a)>>)

TET_cell(a, c) == MkCell(<<a, 0, 0>>, <<0, a, 0>>, <<0, 0, c>>)

BCT_cell(a, c) ==
    MkCell(<<-Half(a), Half(a), Half(c)>>, <<Half(a), -Half(a), Half(c)>>,
           <<Half(a), Half(a), -Half(c)>>)

ORC_cell(a, b, c) ==
    IF check_orc(a, b, c) # "none" THEN RaisedCell(check_orc(a, b, c))
    ELSE MkCell(<<a, 0, 0>>, <<0, b, 0>>, <<0, 0, c>>)

ORCF_cell(a, b, c) ==
    MkCell(<<0, Half(b), Half(c)>>, <<Half(a), 0, Half(c)>>, <<Half(a), Half(b), 0>>)

ORCI_cell(a, b, c) ==
    MkCell(<<-Half(a), Half(b), Half(c)>>, <<Half(a), -Half(b), Half(c)>>,
           <<Half(a), Half(b), -Half(c)>>)

ORCC_cell(a, b, c) ==
    MkCell(<<Half(a), -Half(b), 0>>, <<Half(a), Half(b), 0>>, <<0, 0, c>>)

\* x = 0.5 * sqrt(3) = 0.8660
HEX_cell(a, c) ==
    LET xa == RDiv(8660 * a, CosScale)
    IN  MkCell(<<Half(a), -xa, 0>>, <<Half(a), xa, 0>>, <<0, 0, c>>)

RHL_cell(a, alpha) ==
    LET Rows(acosa2, asina2, acosfrac, xx) ==
            IF ~(xx > 0) THEN RaisedCell("AssertionError")
            ELSE MkCell(<<acosa2, -asina2, 0>>, <<acosa2, asina2, 0>>,
                        <<RDiv(a * acosfrac, CosScale), 0,
                          RDiv(a * ISqrt(xx), CosScale)>>)
        Third(acosa2, asina2, acosfrac) ==
            Rows(acosa2, asina2, acosfrac,
                 CosScale * CosScale - acosfrac * acosfrac)
        Halves(cosa, cosa2, sina2) ==
            IF cosa2 = 0 THEN NanCell
            ELSE Third(RDiv(a * cosa2, CosScale), RDiv(a * sina2, CosScale),
                       RDiv(cosa * CosScale, cosa2))
    IN  Halves(Cos4(alpha), Cos4(alpha \div 2), Sin4(alpha \div 2))

MCL_cell(a, b, c, alpha) ==
    MkCell(<<a, 0, 0>>, <<0, b, 0>>,
           <<0, RDiv(c * Cos4(alpha), CosScale), RDiv(c * Sin4(alpha), CosScale)>>)

MCLC_cell(a, b, c, alpha) ==
    MkCell(<<Half(a), Half(b), 0>>, <<-Half(a), Half(b), 0>>,
           <<0, RDiv(c * Cos4(alpha), CosScale), RDiv(c * Sin4(alpha), CosScale)>>)

\* An angle in degrees (ticks) converted to radians and read as degrees
\* again (ticks): x * pi / 180.
Radians(x) == RDiv(x * 1745, 100000)

\* TRI._cell converts the angles to radians and then multiplies them by
\* _degrees once more before taking the sine and the cosines.
TRI_cell(a, b, c, alpha, beta, gamma) ==
    LET Rows(singamma, cosgamma, cosbeta, num, rad) ==
            IF singamma = 0 \/ rad < 0 THEN NanCell
            ELSE MkCell(<<a, 0, 0>>,
                        <<RDiv(b * cosgamma, CosScale), RDiv(b * singamma, CosScale), 0>>,
                        <<RDiv(c * cosbeta, CosScale), RDiv(c * num, singamma),
                          RDiv(c * ISqrt(rad), singamma)>>)
        \* num = cosalpha - cosbeta * cosgamma, scaled by CosScale;
        \* rad = singamma^2 - cosalpha^2 - cosbeta^2
        \*       + 2 cosalpha cosbeta cosgamma, scaled by CosScale^2
        Third(singamma, cosgamma, cosbeta, cosalpha) ==
            Rows(singamma, cosgamma, cosbeta,
                 cosalpha - RDiv(cosbeta * cosgamma, CosScale),
                 singamma * singamma - cosalpha * cosalpha - cosbeta * cosbeta
                     + 2 * cosalpha * RDiv(cosbeta * cosgamma, CosScale))
    IN  Third(Sin4(Radians(gamma)), Cos4(Radians(gamma)), Cos4(Radians(beta)),
              Cos4(Radians(alpha)))

\* BravaisLattice.tocell with cycle = 0: self._cell(**self._parameters)
tocell(l) ==
    LET p == l.p
    IN  CASE l.type = "CUB" -> CUB_cell(p.a)
          [] l.type = "FCC" -> FCC_cell(p.a)
          [] l.type = "BCC" -> BCC_cell(p.a)
          [] l.type = "TET" -> TET_cell(p.a, p.c)
          [] l.type = "BCT" -> BCT_cell(p.a, p.c)
          [] l.type = "ORC" -> ORC_cell(p.a, p.b, p.c)
          [] l.type = "ORCF" -> ORCF_cell(p.a, p.b, p.c)
          [] l.type = "ORCI" -> ORCI_cell(p.a, p.b, p.c)
          [] l.type = "ORCC" -> ORCC_cell(p.a, p.b, p.c)
          [] l.type = "HEX" -> HEX_cell(p.a, p.c)
          [] l.type = "RHL" -> RHL_cell(p.a, p.alpha)
          [] l.type = "MCL" -> MCL_cell(p.a, p.b, p.c, p.alpha)
          [] l.type = "MCLC" -> MCLC_cell(p.a, p.b, p.c, p.alpha)
          [] l.type = "TRI" -> TRI_cell(p.a, p.b, p.c, p.alpha, p.beta, p.gamma)

\* The norm of a row in ticks.
Norm(u) == ISqrtR(Dot(u, u))

\* The product of the norms of two rows in square ticks.
NormProduct(u, v) ==
    IF Dot(u, u) = Dot(v, v) THEN Dot(u, u)
    ELSE RDiv(ISqrtR(256 * Dot(u, u)) * ISqrtR(256 * Dot(v, v)), 256)

\* n / d scaled by CosScale, for d > 0; a large n is divided at a coarser
\* scale so that the product stays within 32 bits.
CosRatio(n, d) ==
    IF Abs(n) <= 200000 THEN RDiv(n * CosScale, d)
    ELSE RDiv(n * (CosScale \div 10), RDiv(d, 10))

\* The angle between two rows in ticks; 90 degrees when a row is zero.
Angle(u, v) ==
    LET Of(n, d) == IF d = 0 THEN 900 ELSE ArcCosTicks(CosRatio(n, d))
    IN  Of(Dot(u, v), NormProduct(u, v))

\* Cell.cellpar: the lengths a, b, c and the angles alpha = angle(b, c),
\* beta = angle(a, c), gamma = angle(a, b).
Cellpar(m) ==
    <<Norm(m[1]), Norm(m[2]), Norm(m[3]),
      Angle(m[2], m[3]), Angle(m[1], m[3]), Angle(m[1], m[2])>>

----------------------------------------------------------------------------
(* Band paths.  A dictionary is the sequence of its items <<key, value>>,   *)
(* a label is the sequence of its characters.                               *)

resolve_kpt_path_string_mut(path, special_points) ==
    LET paths == parse_path_string(path)
        Get(sym) ==
            special_points[CHOOSE i \in 1..Len(special_points) :
                               special_points[i][1] = sym][2]
    IN  [exc |-> "none", paths |-> paths,
         coords |-> [i \in 1..Len(paths) |->
                        [j \in 1..Len(paths[i]) |-> Get(paths[i][1])]]]

\* resolve_kpt_path_string(path, special_points): the label lists of the
\* path and, for each, the list of the values of its labels.
resolve_kpt_path_string(path, special_points) ==
    LET paths == parse_path_string(path)
        Has(sym) == \E i \in 1..Len(special_points) : special_points[i][1] = sym
        Get(sym) ==
            special_points[CHOOSE i \in 1..Len(special_points) :
                               special_points[i][1] = sym][2]
    IN  IF \E i \in 1..Len(paths) : paths[i] = InvalidPath
        THEN [exc |-> "InvalidPathSpec", paths |-> <<>>, coords |-> <<>>]
        ELSE IF \E i \in 1..Len(paths) : \E j \in 1..Len(paths[i]) : ~Has(paths[i][j])
        THEN [exc |-> "KeyError", paths |-> <<>>, coords |-> <<>>]
        ELSE [exc |-> "none", paths |-> paths,
              coords |-> [i \in 1..Len(paths) |->
                             [j \in 1..Len(paths[i]) |-> Get(paths[i][j])]]]

\* BravaisLattice.get_special_points: the class attribute special_points
\* when the object has one (SimpleBravaisLattice declares it as None, the
\* decorator sets it where it finds a pointinfo table), else the labels
\* zipped with the points of the formula.  none says that the value is None.
get_special_points(l) ==
    LET static == static_special_points(l.type)
        Zip(kl, pts) ==
            IF kl.exc # "none" THEN [exc |-> kl.exc, none |-> FALSE, dict |-> <<>>]
            ELSE IF pts.exc # "none" THEN [exc |-> pts.exc, none |-> FALSE, dict |-> <<>>]
            ELSE [exc |-> "none", none |-> FALSE,
                  dict |-> [i \in 1..Len(kl.labels) |-> <<kl.labels[i], pts.points[i]>>]]
    IN  IF l.type \in {"CUB", "FCC", "BCC", "TET"} \/ static # <<>>
        THEN [exc |-> "none", none |-> static = <<>>,
              dict |-> [i \in 1..Len(static) |->
                           <<<<static[i][1]>>, <<static[i][2], static[i][3]>>>>]]
        ELSE Zip(kpoint_labels(l), get_special_points_array(l))

\* BravaisLattice.bandpath(path, npoints, special_points); an argument is
\* [none |-> TRUE] when it is left out.  The result has the BandPath's cell,
\* labelseq and special_points, and pathnames and pathcoords as
\* resolve_kpt_path_string returned them; the k-points that paths2kpts
\* samples from them are not modelled.
bandpath(l, path_arg, special_points_arg) ==
    LET NoBandPath(e) == [exc |-> e, kind |-> "none"]
        Make(path, special_points, r, cell) ==
            IF r.exc # "none" THEN NoBandPath(r.exc)
            ELSE IF cell.exc # "none" THEN NoBandPath(cell.exc)
            ELSE [exc |-> "none", kind |-> "bandpath", cell |-> cell.array,
                  labelseq |-> path, special_points |-> special_points,
                  pathnames |-> r.paths, pathcoords |-> r.coords]
        Resolve(path, special_points) ==
            Make(path, special_points,
                 resolve_kpt_path_string(path, special_points), tocell(l))
        WithPoints(sp) ==
            IF sp.exc # "none" THEN NoBandPath(sp.exc)
            ELSE IF sp.none THEN NoBandPath("AssertionError")
            ELSE Resolve(IF path_arg.none
                         THEN VariantOf(l.type, l.variant).special_path
                         ELSE path_arg.v,
                         sp.dict)
    IN  WithPoints(IF special_points_arg.none THEN get_special_points(l)
                   ELSE [exc |-> "none", none |-> FALSE, dict |-> special_points_arg.v])

----------------------------------------------------------------------------
(* Constructing lattices and using them                                    *)

MinLen == 5

MaxLen == 20

MaxAngle == 4

Lengths == MinLen..MaxLen

\* alpha, beta, gamma in steps of thirty degrees
Angles == {300 * k : k \in 1..MaxAngle}

\* Three angles that some cell has.
ValidAngles(alpha, beta, gamma) ==
    /\ alpha < beta + gamma
    /\ beta < alpha + gamma
    /\ gamma < alpha + beta
    /\ alpha + beta + gamma < 3600

NoCall == [type |-> "none", p |-> [none |-> 0]]

Idle == /\ nums = <<0, 0, 0>>
        /\ ceps = 0
        /\ cat = NoValue
        /\ uc = <<>>
        /\ loc = NoValue
        /\ pc = "idle"
        /\ caught = "none"
        /\ ret = NoValue

InitLat ==
    /\ call = NoCall
    /\ lat = NoLattice
    /\ exc = "none"
    /\ out = NoValue
    /\ Idle

\* No constructor has been called yet.
Fresh == call = NoCall

\* A constructor call, the first step of a run: the variable lat is bound to
\* the new object when the call returns and keeps no object when it raises.
Construct(type, p) ==
    LET Bind(r) == lat' = r.lat /\ exc' = r.exc
    IN  /\ call' = [type |-> type, p |-> p]
        /\ Bind(New(type, p))
        /\ out' = NoValue
        /\ UNCHANGED <<nums, ceps, cat, uc, loc, pc, caught, ret>>

NewCUB == Fresh /\ \E a \in Lengths : Construct("CUB", [a |-> a])

NewFCC == Fresh /\ \E a \in Lengths : Construct("FCC", [a |-> a])

NewBCC == Fresh /\ \E a \in Lengths : Construct("BCC", [a |-> a])

NewTET == Fresh /\ \E a, c \in Lengths : Construct("TET", [a |-> a, c |-> c])

NewBCT == Fresh /\ \E a, c \in Lengths : Construct("BCT", [a |-> a, c |-> c])

NewORC == Fresh /\ \E a, b, c \in Lengths : Construct("ORC", [a |-> a, b |-> b, c |-> c])

NewORCF == Fresh /\ \E a, b, c \in Lengths : Construct("ORCF", [a |-> a, b |-> b, c |-> c])

NewORCI == Fresh /\ \E a, b, c \in Lengths : Construct("ORCI", [a |-> a, b |-> b, c |-> c])

NewORCC == Fresh /\ \E a, b, c \in Lengths : Construct("ORCC", [a |-> a, b |-> b, c |-> c])

NewHEX == Fresh /\ \E a, c \in Lengths : Construct("HEX", [a |-> a, c |-> c])

NewRHL == Fresh /\ \E a \in Lengths, alpha \in Angles : Construct("RHL", [a |-> a, alpha |-> alpha])

NewMCL ==
    /\ Fresh
    /\ \E a, b, c \in Lengths, alpha \in Angles :
           Construct("MCL", [a |-> a, b |-> b, c |-> c, alpha |-> alpha])

NewMCLC ==
    /\ Fresh
    /\ \E a, b, c \in Lengths, alpha \in Angles :
           Construct("MCLC", [a |-> a, b |-> b, c |-> c, alpha |-> alpha])

NewTRI ==
    /\ Fresh
    /\ \E a, b, c \in {MinLen, MaxLen}, alpha, beta, gamma \in Angles \cup {450, 1350} :
           /\ ValidAngles(alpha, beta, gamma)
           /\ \/ {alpha, beta, gamma} \subseteq Angles
              \/ <<alpha, beta, gamma>> \in {<<450, 450, 600>>, <<1350, 1350, 600>>}
           /\ Construct("TRI", [a |-> a, b |-> b, c |-> c,
                                alpha |-> alpha, beta |-> beta, gamma |-> gamma])

\* lat.get_special_points_array()
GetSpecialPointsArray ==
    /\ lat # NoLattice
    /\ out = NoValue
    /\ LET Bind(r) == /\ exc' = r.exc
                       /\ out' = [kind |-> "points", points |-> r.points]
       IN  Bind(get_special_points_array(lat))
    /\ UNCHANGED <<call, lat, nums, ceps, cat, uc, loc, pc, caught, ret>>

ToCell_mut ==
    /\ lat # NoLattice
    /\ out = NoValue
    /\ LET Bind(r) == /\ exc' = r.exc
                       /\ out' = [kind |-> "cell", nan |-> r.nan, array |-> r.array]
       IN  Bind(tocell(lat))
    /\ lat' = [lat EXCEPT !.p = [k \in DOMAIN lat.p |-> 0]]
    /\ UNCHANGED <<call, nums, ceps, cat, uc, loc, pc, caught, ret>>

\* lat.tocell()
ToCell ==
    /\ lat # NoLattice
    /\ out = NoValue
    /\ LET Bind(r) == /\ exc' = r.exc
                       /\ out' = [kind |-> "cell", nan |-> r.nan, array |-> r.array]
       IN  Bind(tocell(lat))
    /\ UNCHANGED <<call, lat, nums, ceps, cat, uc, loc, pc, caught, ret>>

\* The path arguments of a call: none, a path of two segments with a label
\* of two characters, and a path whose first segment breaks the grammar.
PathArgs ==
    {[none |-> TRUE],
     [none |-> FALSE, v |-> <<"G", "X", ",", "X", "1", "G">>],
     [none |-> FALSE, v |-> <<"G", "x", ",", "X">>]}

\* The special_points arguments of a call: none, and a mapping with the
\* labels G, X and X1.
PointArgs ==
    {[none |-> TRUE],
     [none |-> FALSE,
      v |-> << <<<<"G">>, <<"0", "0", "0">>>>, <<<<"X">>, <<".5", "0", "0">>>>,
               <<<<"X", "1">>, <<".5", ".5", "0">>>> >>]}

\* lat.bandpath(path=path, special_points=special_points); out gets the
\* BandPath, or the exception that the call raised.
Bandpath ==
    /\ lat # NoLattice
    /\ out = NoValue
    /\ \E path \in PathArgs, special_points \in PointArgs :
           LET args == [op |-> "bandpath", path |-> path, special_points |-> special_points]
               Bind(r) == out' = IF r.exc # "none"
                                 THEN [kind |-> "raised", args |-> args, exc |-> r.exc]
                                 ELSE [kind |-> "bandpath", args |-> args,
                                       cell |-> r.cell, labelseq |-> r.labelseq,
                                       special_points |-> r.special_points,
                                       pathnames |-> r.pathnames,
                                       pathcoords |-> r.pathcoords]
           IN  Bind(bandpath(lat, path, special_points))
    /\ UNCHANGED <<call, lat, exc, nums, ceps, cat, uc, loc, pc, caught, ret>>

\* lat.plot_bz(path=path, special_points=special_points): the band path
\* with npoints = 0, then its plot.
PlotBZ ==
    /\ lat # NoLattice
    /\ out = NoValue
    /\ \E path \in PathArgs, special_points \in PointArgs :
           LET args == [op |-> "plot_bz", path |-> path, special_points |-> special_points]
               Bind(r) == out' = IF r.exc # "none"
                                 THEN [kind |-> "raised", args |-> args, exc |-> r.exc]
                                 ELSE [kind |-> "plot", args |-> args,
                                       labelseq |-> r.labelseq]
           IN  Bind(bandpath(lat, path, special_points))
    /\ UNCHANGED <<call, lat, exc, nums, ceps, cat, uc, loc, pc, caught, ret>>

\* lat.cellpar(): the cell parameters of lat.tocell()
CellPar ==
    /\ lat # NoLattice
    /\ out = NoValue
    /\ LET Bind(r) == out' = IF r.exc # "none"
                             THEN [kind |-> "error", op |-> "cellpar", exc |-> r.exc]
                             ELSE [kind |-> "cellpar", nan |-> r.nan,
                                   cellpar |-> Cellpar(r.array)]
       IN  Bind(tocell(lat))
    /\ UNCHANGED <<call, lat, exc, nums, ceps, cat, uc, loc, pc, caught, ret>>

\* lat.get_variant(): the variant named by _variant_name(**self._parameters)
GetVariant ==
    /\ lat # NoLattice
    /\ out = NoValue
    /\ LET Bind(r) == out' = IF r.exc # "none"
                             THEN [kind |-> "error", op |-> "get_variant", exc |-> r.exc]
                             ELSE [kind |-> "variant", name |-> r.name]
       IN  Bind(variant_name(lat.type, lat.p, lat.eps))
    /\ UNCHANGED <<call, lat, exc, nums, ceps, cat, uc, loc, pc, caught, ret>>

\* lat.get_special_points()
GetSpecialPoints ==
    /\ lat # NoLattice
    /\ out = NoValue
    /\ LET Bind(r) == out' = IF r.exc # "none"
                             THEN [kind |-> "error", op |-> "get_special_points", exc |-> r.exc]
                             ELSE [kind |-> "special_points", none |-> r.none,
                                   dict |-> r.dict]
       IN  Bind(get_special_points(lat))
    /\ UNCHANGED <<call, lat, exc, nums, ceps, cat, uc, loc, pc, caught, ret>>

NextLat ==
    \/ NewCUB \/ NewFCC \/ NewBCC \/ NewTET \/ NewBCT \/ NewORC \/ NewORCF
    \/ NewORCI \/ NewORCC \/ NewHEX \/ NewRHL \/ NewMCL \/ NewMCLC \/ NewTRI
    \/ GetSpecialPointsArray
    \/ ToCell
    \/ CellPar
    \/ GetVariant
    \/ GetSpecialPoints
    \/ Bandpath
    \/ PlotBZ

SpecLat == InitLat /\ [][NextLat]_vars

----------------------------------------------------------------------------
(* get_bravais_lattice.categorize_differences                              *)

\* Python's None where an index is expected.
None == -1

EqList_mut(numbers, eps) ==
    LET a == numbers[1]
        b == numbers[2]
        c == numbers[3]
    IN  <<Abs(b - c) <= eps, Abs(c - a) <= eps, Abs(a - b) <= eps>>

\* The list eq of categorize_differences.
EqList(numbers, eps) ==
    LET a == numbers[1]
        b == numbers[2]
        c == numbers[3]
    IN  <<Abs(b - c) < eps, Abs(c - a) < eps, Abs(a - b) < eps>>

ArgMaxBool_mut(eq) == 0

\* np.argmax of a list of three booleans (0-based).
ArgMaxBool(eq) == IF eq[1] THEN 0 ELSE IF eq[2] THEN 1 ELSE IF eq[3] THEN 2 ELSE 0

\* categorize_differences(numbers) for the tolerance eps, with the list eq
\* it computed; exc is "AssertionError" when exactly two of the three
\* pairs are equal.
categorize_differences(numbers, eps) ==
    LET eq == EqList(numbers, eps)
        neq == (IF eq[1] THEN 1 ELSE 0) + (IF eq[2] THEN 1 ELSE 0) + (IF eq[3] THEN 1 ELSE 0)
    IN  [kind |-> "categories",
         exc |-> IF neq = 2 THEN "AssertionError" ELSE "none",
         eq |-> eq,
         all_equal |-> neq = 3,
         all_different |-> neq = 0,
         funny_direction |-> IF neq = 1 THEN ArgMaxBool(eq) ELSE None]

MaxNum == 5

MaxCatEps == 2

InitCat ==
    /\ call = NoCall
    /\ lat = NoLattice
    /\ exc = "none"
    /\ out = NoValue
    /\ nums \in (0..MaxNum) \X (0..MaxNum) \X (0..MaxNum)
    /\ ceps \in 1..MaxCatEps
    /\ cat = NoValue
    /\ uc = <<>>
    /\ loc = NoValue
    /\ pc = "idle"
    /\ caught = "none"
    /\ ret = NoValue

\* One call categorize_differences(nums) with eps = ceps.
Categorize ==
    /\ cat = NoValue
    /\ cat' = categorize_differences(nums, ceps)
    /\ UNCHANGED <<call, lat, exc, out, nums, ceps, uc, loc, pc, caught, ret>>

NextCat == Categorize

SpecCat == InitCat /\ [][NextCat]_vars

----------------------------------------------------------------------------
(* Family constructors called with keyword arguments                       *)

\* The parameter names in the signature of each family's __init__.
signature ==
    [CUB |-> <<"a">>, FCC |-> <<"a">>, BCC |-> <<"a">>,
     TET |-> <<"a", "c">>, BCT |-> <<"a", "c">>,
     ORC |-> <<"a", "b", "c">>, ORCF |-> <<"a", "b", "c">>,
     ORCI |-> <<"a", "b", "c">>, ORCC |-> <<"a", "b", "c">>,
     HEX |-> <<"a", "c">>, RHL |-> <<"a", "alpha">>,
     MCL |-> <<"a", "b", "c", "alpha">>, MCLC |-> <<"a", "b", "c", "alpha">>,
     TRI |-> <<"a", "b", "c", "alpha", "beta", "gamma">>]

float_mut(x) == x.v

\* float(x) for a Python number x: an int holds whole units, a float holds
\* ticks, and the floats of the model are ticks.
float(x) == IF x.py = "int" THEN x.v * TicksPerUnit ELSE x.v

family_init_mut(type, kw) ==
    IF DOMAIN kw \ {"eps"} # SeqRange(signature[type])
    THEN [exc |-> "TypeError", lat |-> NoLattice]
    ELSE New(type, [k \in DOMAIN kw \ {"eps"} |-> float(kw[k])])

\* F(**kw): a keyword that the signature of F.__init__ does not name, or a
\* name of the signature without an argument, is a TypeError of the call;
\* otherwise the arguments go to BravaisLattice.__init__, which stores
\* float(v) for each.
family_init(type, kw) ==
    IF DOMAIN kw # SeqRange(signature[type])
    THEN [exc |-> "TypeError", lat |-> NoLattice]
    ELSE New(type, [k \in DOMAIN kw |-> float(kw[k])])

MaxKw == 2

\* F(**kw) for a family F, the first step of a run.  The keywords are among
\* the parameter names of all families, eps, and a name that no family has;
\* the arguments are lengths 12 n, 15 n, 20 n and angles of 70 as int, or
\* lengths 1.2 n, 1.5 n, 2.0 n and angles of 70.5 as float.
NewKw ==
    /\ Fresh
    /\ \E type \in SeqRange(Families),
          names \in SUBSET {"a", "b", "c", "alpha", "beta", "gamma", "eps", "d"},
          n \in 1..MaxKw, py \in {"int", "float"} :
           LET Length(k) == CASE k = "a" -> 12 * n
                              [] k = "b" -> 15 * n
                              [] k = "c" -> 20 * n
                              [] OTHER -> 25 * n
               KwValue(k) ==
                   IF k \in {"a", "b", "c", "d"} THEN [py |-> py, v |-> Length(k)]
                   ELSE IF k = "eps" THEN [py |-> "float", v |-> n]
                   ELSE [py |-> py, v |-> IF py = "int" THEN 70 ELSE 705]
               kw == [k \in names |-> KwValue(k)]
               Bind(r) == lat' = r.lat /\ exc' = r.exc
           IN  /\ call' = [type |-> type, p |-> kw]
               /\ Bind(family_init(type, kw))
    /\ UNCHANGED <<out, nums, ceps, cat, uc, loc, pc, caught, ret>>

NextKw == NewKw

SpecKw == InitLat /\ [][NextKw]_vars

----------------------------------------------------------------------------
(* BandPath: the constructor, todict and fromdict                          *)

\* BandPath.__init__(cell, scaled_kpts, special_points, labelseq); an
\* argument is [none |-> TRUE] when it is left out.  An array is a record of
\* its shape and its rows; the default np.empty((0, 3)) has no row.  icell is
\* cell.reciprocal(); the cells given here are the diagonal cells of TET
\* lattices, whose reciprocal is the diagonal cell of the inverse lengths
\* (at scale CosScale per tick).
BandPath_init(cell, scaled_kpts, special_points, labelseq) ==
    LET kpts == IF scaled_kpts.none THEN [shape |-> <<0, 3>>, rows |-> <<>>]
                ELSE scaled_kpts.v
        icell == [i \in 1..3 |-> [j \in 1..3 |->
                     IF i = j /\ cell[i][i] # 0 THEN RDiv(CosScale, cell[i][i]) ELSE 0]]
    IN  IF ~(Len(kpts.shape) = 2 /\ kpts.shape[2] = 3)
        THEN [exc |-> "AssertionError", bp |-> NoValue]
        ELSE [exc |-> "none",
              bp |-> [kind |-> "BandPath", cell |-> cell, icell |-> icell,
                      scaled_kpts |-> kpts,
                      special_points |-> IF special_points.none THEN <<>>
                                         ELSE special_points.v,
                      labelseq |-> IF labelseq.none THEN <<>> ELSE labelseq.v]]

\* BandPath.todict().  The values of the dictionary display are evaluated in
\* order; the third one is the bare name special_points, which is neither a
\* local of todict, nor a name bound at module level, nor a builtin, so the
\* lookup raises NameError before any dictionary exists, whatever bp holds.
todict(bp) ==
    IF bp.kind = "BandPath" THEN [exc |-> "NameError", dict |-> NoValue]
    ELSE [exc |-> "AttributeError", dict |-> NoValue]

\* BandPath.fromdict(d), d a dictionary (a function of its keys).  kwargs is
\* a copy of d, so the pop acts on the copy; the result carries d as it is
\* after the call.  A key that __init__ does not take, or no cell, is a
\* TypeError of the call cls(**kwargs).
fromdict(d) ==
    LET kwargs == [k \in DOMAIN d \ {"_ase_objtype"} |-> d[k]]
        Arg(k) == IF k \in DOMAIN kwargs THEN [none |-> FALSE, v |-> kwargs[k]]
                  ELSE [none |-> TRUE]
        Made(r) == [exc |-> r.exc, bp |-> r.bp, d |-> d]
    IN  IF "_ase_objtype" \notin DOMAIN d
        THEN [exc |-> "KeyError", bp |-> NoValue, d |-> d]
        ELSE IF d["_ase_objtype"] # "bandpath"
        THEN [exc |-> "AssertionError", bp |-> NoValue, d |-> d]
        ELSE IF \/ "cell" \notin DOMAIN kwargs
                \/ ~(DOMAIN kwargs \subseteq
                         {"cell", "scaled_kpts", "special_points", "labelseq"})
        THEN [exc |-> "TypeError", bp |-> NoValue, d |-> d]
        ELSE Made(BandPath_init(kwargs["cell"], Arg("scaled_kpts"),
                                Arg("special_points"), Arg("labelseq")))

\* A call of the constructor, the first step of a run: the cell, the special
\* points and the default path of a TET lattice, with k-point arrays of shape
\* (1, 3), (1, 2) and (3,), and each optional argument given or left out.
NewBandPath ==
    /\ Fresh
    /\ \E a, c \in Lengths :
       \E kpts \in {[none |-> TRUE],
                    [none |-> FALSE, v |-> [shape |-> <<1, 3>>, rows |-> <<<<0, 0, 0>>>>]],
                    [none |-> FALSE, v |-> [shape |-> <<1, 2>>, rows |-> <<<<0, 0>>>>]],
                    [none |-> FALSE, v |-> [shape |-> <<3>>, rows |-> <<0, 0, 0>>]]} :
       \E given \in BOOLEAN :
           LET l == New("TET", [a |-> a, c |-> c]).lat
               sp == IF given THEN [none |-> FALSE, v |-> get_special_points(l).dict]
                     ELSE [none |-> TRUE]
               ls == IF given
                     THEN [none |-> FALSE, v |-> VariantOf("TET", l.variant).special_path]
                     ELSE [none |-> TRUE]
               Bind(r) == out' = r.bp /\ exc' = r.exc
           IN  /\ call' = [type |-> "BandPath",
                           p |-> [cell |-> tocell(l).array, scaled_kpts |-> kpts,
                                  special_points |-> sp, labelseq |-> ls]]
               /\ Bind(BandPath_init(tocell(l).array, kpts, sp, ls))
    /\ UNCHANGED <<lat, nums, ceps, cat, uc, loc, pc, caught, ret>>

\* bp.todict() on the BandPath made.
ToDict ==
    /\ out.kind = "BandPath"
    /\ ret = NoValue
    /\ LET Bind(r) == /\ ret' = [kind |-> "todict", exc |-> r.exc, dict |-> r.dict]
                      /\ exc' = r.exc
       IN  Bind(todict(out))
    /\ UNCHANGED <<call, lat, out, nums, ceps, cat, uc, loc, pc, caught>>

\* BandPath.fromdict(d) on a dictionary with the keys that todict names and
\* the values of the BandPath made, tagged "bandpath", tagged otherwise, or
\* not tagged.  loc keeps d as it was passed in.
FromDict ==
    /\ out.kind = "BandPath"
    /\ ret = NoValue
    /\ \E tag \in {"bandpath", "bravais", "none"} :
           LET fields == [k \in {"scaled_kpts", "special_points", "labelseq", "cell"}
                             |-> out[k]]
               d == IF tag = "none" THEN fields
                    ELSE [k \in DOMAIN fields \cup {"_ase_objtype"} |->
                             IF k = "_ase_objtype" THEN tag ELSE fields[k]]
               Bind(r) == /\ ret' = [kind |-> "fromdict", exc |-> r.exc,
                                     bp |-> r.bp, d |-> r.d]
                          /\ exc' = r.exc
           IN  /\ loc' = d
               /\ Bind(fromdict(d))
    /\ UNCHANGED <<call, lat, out, nums, ceps, cat, uc, pc, caught>>

NextBP == NewBandPath \/ ToDict \/ FromDict

SpecBP == InitLat /\ [][NextBP]_vars
----------------------------------------------------------------------------
(* get_bravais_lattice(uc, eps, _niggli_reduce)                            *)
(*                                                                         *)
(* uc is the cell the tests look at (after uc.niggli_reduce(), or the      *)
(* argument itself with _niggli_reduce=False).  eps is the eps argument in *)
(* ticks: it bounds a difference of lengths in ticks, of angles in ticks   *)
(* and, multiplied by TicksPerUnit, of scalar products in square ticks.    *)

\* A NaN parameter of a lattice object.
NaN == -1

\* v[i] for a Python index i into a vector of three (negative indices
\* count from the end, and the code reduces the others modulo 3).
At(v, i) == v[(i % 3) + 1]

\* np.allclose(a, b): |a - b| <= 1e-8 + 1e-5 * |b|
np_allclose(a, b) == Abs(a - b) * 100000 <= Abs(b)

\* allclose(a, b) of get_bravais_lattice: np.allclose(a, b, atol=eps)
allclose(a, b, eps) == Abs(a - b) * 100000 <= eps * 100000 + Abs(b)

\* allclose(v, w) for two arrays of one shape; a number is broadcast to
\* the shape of the array it is compared with.
allclose_all(v, w, eps) == \A i \in 1..Len(v) : allclose(v[i], w[i], eps)

\* noduplicates(a) for three numbers: the smallest gap exceeds eps.
noduplicates(a, eps) ==
    /\ Abs(a[1] - a[2]) > eps
    /\ Abs(a[2] - a[3]) > eps
    /\ Abs(a[1] - a[3]) > eps

\* np.argsort(a) for three numbers, as 1-based positions.
argsort(a) ==
    CHOOSE p \in {<<1, 2, 3>>, <<1, 3, 2>>, <<2, 1, 3>>, <<2, 3, 1>>, <<3, 1, 2>>, <<3, 2, 1>>} :
        \A i \in 1..2 : a[p[i]] < a[p[i + 1]] \/ (a[p[i]] = a[p[i + 1]] /\ p[i] < p[i + 1])

\* a[permutation]
Take(a, p) == <<a[p[1]], a[p[2]], a[p[3]]>>

\* The empty dictionary.
EmptyDict == <<>>

\* How a test ends: it returns a pair (lat, info), raises, or leaves the
\* call to go on with the next test; caught is the exception that check()
\* swallowed on the way.
Return_mut(l) ==
    [kind |-> "return",
     lat |-> [type |-> l.type, p |-> [none |-> 0], eps |-> 0, variant |-> "none"],
     info |-> l.p, exc |-> "none", caught |-> "none"]

\* return lat, {}
Return(l) ==
    [kind |-> "return", lat |-> l, info |-> EmptyDict, exc |-> "none", caught |-> "none"]

Raise(e) ==
    [kind |-> "raise", lat |-> NoLattice, info |-> EmptyDict, exc |-> e, caught |-> "none"]

NoMatch ==
    [kind |-> "next", lat |-> NoLattice, info |-> EmptyDict, exc |-> "none",
     caught |-> "none"]

\* `lat = F(...); return lat, {}` for the result r of the constructor call
FromNew(r) == IF r.exc # "none" THEN Raise(r.exc) ELSE Return(r.lat)

\* The locals computed before the first test: cellpar, ABC, angles, the
\* squares A**2, B**2, C**2, BC_CA_AB and the three categorisations.
locals(u, eps) ==
    LET Build(cellpar, sp) ==
            LET ABC == SubSeq(cellpar, 1, 3)
                angles == SubSeq(cellpar, 4, 6)
                cl == categorize_differences(ABC, eps)
                ca == categorize_differences(angles, eps)
                cs == categorize_differences(sp, eps * TicksPerUnit)
            IN  [kind |-> "locals",
                 exc |-> IF cl.exc # "none" THEN cl.exc
                         ELSE IF ca.exc # "none" THEN ca.exc ELSE cs.exc,
                 cellpar |-> cellpar,
                 ABC |-> ABC,
                 ABC2 |-> <<Dot(u[1], u[1]), Dot(u[2], u[2]), Dot(u[3], u[3])>>,
                 angles |-> angles,
                 BC_CA_AB |-> sp,
                 all_lengths_equal |-> cl.all_equal,
                 all_lengths_different |-> cl.all_different,
                 unequal_length_dir |-> cl.funny_direction,
                 unequal_angle_dir |-> ca.funny_direction,
                 unequal_scalarprod_dir |-> cs.funny_direction]
    IN  Build(Cellpar(u), <<Dot(u[2], u[3]), Dot(u[3], u[1]), Dot(u[1], u[2])>>)

check_mut(r, axis, cellpar) ==
    LET Compare(cell) ==
            IF cell.exc # "none" THEN [exc |-> cell.exc, caught |-> "none", obj |-> FALSE]
            ELSE IF cell.nan THEN [exc |-> "none", caught |-> "none", obj |-> FALSE]
            ELSE LET Same(my) ==
                         \A i \in 1..3 :
                             /\ np_allclose(At(SubSeq(my, 1, 3), axis + i - 1), cellpar[i])
                             /\ np_allclose(At(SubSeq(my, 4, 6), axis + i - 1), cellpar[i + 3])
                 IN  [exc |-> "none", caught |-> "none", obj |-> Same(Cellpar(cell.array))]
    IN  IF r.exc # "none" THEN [exc |-> r.exc, caught |-> "none", obj |-> FALSE]
        ELSE Compare(tocell(r.lat))

\* check(f, *args, axis=axis) where r is what f(*args) comes to: obj tells
\* whether a (truthy) pair is returned rather than None, caught is the
\* exception the except clause swallowed, exc one that it lets through.
check(r, axis, cellpar) ==
    LET Compare(cell) ==
            IF cell.exc = "UnconventionalLattice"
            THEN [exc |-> "none", caught |-> cell.exc, obj |-> FALSE]
            ELSE IF cell.exc # "none" THEN [exc |-> cell.exc, caught |-> "none", obj |-> FALSE]
            ELSE IF cell.nan THEN [exc |-> "none", caught |-> "none", obj |-> FALSE]
            ELSE LET Same(my) ==
                         \A i \in 1..3 :
                             /\ np_allclose(At(SubSeq(my, 1, 3), axis + i - 1), cellpar[i])
                             /\ np_allclose(At(SubSeq(my, 4, 6), axis + i - 1), cellpar[i + 3])
                 IN  [exc |-> "none", caught |-> "none", obj |-> Same(Cellpar(cell.array))]
    IN  IF r.exc = "UnconventionalLattice"
        THEN [exc |-> "none", caught |-> r.exc, obj |-> FALSE]
        ELSE IF r.exc # "none" THEN [exc |-> r.exc, caught |-> "none", obj |-> FALSE]
        ELSE Compare(tocell(r.lat))

----------------------------------------------------------------------------
(* The family tests, in the order of the source.  l is the record of       *)
(* locals, u the cell, eps the eps argument.                               *)

test_CUB(l, eps) ==
    IF l.all_lengths_equal /\ allclose_all(l.angles, <<900, 900, 900>>, eps)
    THEN FromNew(New("CUB", [a |-> l.ABC[1]]))
    ELSE NoMatch

\* FCC(np.sqrt(2) * A)
test_FCC(l, eps) ==
    IF l.all_lengths_equal /\ allclose_all(l.angles, <<600, 600, 600>>, eps)
    THEN FromNew(New("FCC", [a |-> RDiv(l.ABC[1] * 14142, 10000)]))
    ELSE NoMatch

\* arccos(-1 / 3) is 1094.7122 ticks; BCC(2.0 * A / np.sqrt(3))
test_BCC(l, eps) ==
    IF /\ l.all_lengths_equal
       /\ \A i \in 1..3 : Abs(l.angles[i] * 10000 - 10947122) <= eps * 10000 + 109
    THEN FromNew(New("BCC", [a |-> RDiv(l.ABC[1] * 11547, 10000)]))
    ELSE NoMatch

\* c = 2 sqrt(-y) and a = sqrt(2 A^2 - c^2 / 2); a negative radicand makes
\* the parameter, the canonical cell and its cellpar NaN, and check() None.
test_BCT(l, eps) ==
    LET dir == l.unequal_angle_dir
        Checked(a, c, chk) ==
            IF chk.exc # "none" THEN Raise(chk.exc)
            ELSE IF chk.obj THEN FromNew(New("BCT", [a |-> a, c |-> c]))
            ELSE [NoMatch EXCEPT !.caught = chk.caught]
        Try(a, c) ==
            Checked(a, c, check(New("BCT", [a |-> a, c |-> c]), 2 - dir, l.cellpar))
        With(y, A2) ==
            IF y > 0 \/ A2 + y < 0 THEN NoMatch
            ELSE Try(ISqrtR(2 * (A2 + y)), ISqrtR(4 * (-y)))
    IN  IF l.all_lengths_equal /\ dir # None
        THEN With(At(l.BC_CA_AB, dir + 1), l.ABC2[1])
        ELSE NoMatch

\* Indexing BC_CA_AB with None gives an array, and asserting on it raises
\* ValueError.
test_HEX(l, eps) ==
    LET dir == l.unequal_angle_dir
        sd == l.unequal_scalarprod_dir
    IN  IF /\ dir # None
           /\ Abs(At(l.angles, dir) - 1200) < eps
           /\ Abs(At(l.angles, dir - 1) - 900) < eps
        THEN IF sd = None THEN Raise("ValueError")
             ELSE IF ~(-2 * At(l.BC_CA_AB, sd) > 0) THEN Raise("AssertionError")
             ELSE FromNew(New("HEX", [a |-> ISqrtR(-2 * At(l.BC_CA_AB, sd)),
                                      c |-> At(l.ABC, sd)]))
        ELSE NoMatch

test_TET(l, eps) ==
    LET dir == l.unequal_length_dir
        Checked(a, c, chk) ==
            IF chk.exc # "none" THEN Raise(chk.exc)
            ELSE IF ~chk.obj THEN [Raise("AssertionError") EXCEPT !.caught = chk.caught]
            ELSE FromNew(New("TET", [a |-> a, c |-> c]))
        Try(a, c) ==
            Checked(a, c, check(New("TET", [a |-> a, c |-> c]), 2 - dir, l.cellpar))
    IN  IF allclose_all(l.angles, <<900, 900, 900>>, eps) /\ dir # None
        THEN Try(At(l.ABC, dir - 1), At(l.ABC, dir))
        ELSE NoMatch

\* A NaN orcc_a or orcc_b fails `a < b` in ORCC._variant_name.
test_ORCC(l, eps) ==
    LET cdir == l.unequal_length_dir
        Big(i) == Abs(l.BC_CA_AB[i]) > eps * TicksPerUnit
        Sorted(a, b) ==
            FromNew(New("ORCC", [a |-> Min2(a, b), b |-> Max2(a, b), c |-> At(l.ABC, cdir)]))
        With(X, Y) ==
            IF X + Y < 0 \/ X - Y < 0 THEN Raise("UnconventionalLattice")
            ELSE Sorted(ISqrtR(2 * (X + Y)), ISqrtR(2 * (X - Y)))
    IN  IF /\ cdir # None
           /\ Abs(At(l.BC_CA_AB, cdir)) > eps * TicksPerUnit
           /\ Cardinality({i \in 1..3 : Big(i)}) = 1
        THEN With(At(l.ABC2, cdir + 1), At(l.BC_CA_AB, cdir))
        ELSE NoMatch

test_ORC(l, eps) ==
    LET Sorted(s) == FromNew(New("ORC", [a |-> s[1], b |-> s[2], c |-> s[3]]))
    IN  IF allclose_all(l.angles, <<900, 900, 900>>, eps) /\ l.all_lengths_different
        THEN Sorted(Take(l.ABC, argsort(l.ABC)))
        ELSE NoMatch

\* ORCF(*(2 * np.sqrt(BC_CA_AB[permutation]))): the square root of a
\* negative product is NaN and fails check_orc.
test_ORCF(l, u, eps) ==
    LET Compared(r, par1, par2) ==
            IF allclose_all(par1, par2, eps) THEN Return(r.lat)
            ELSE Raise("AssertionError")
        Built(r, perm) ==
            IF r.exc # "none" THEN Raise(r.exc)
            ELSE Compared(r, Cellpar(tocell(r.lat).array), Cellpar(Take(u, perm)))
        Sorted(s, perm) ==
            IF s[1] < 0 THEN Raise("UnconventionalLattice")
            ELSE Built(New("ORCF", [a |-> ISqrtR(4 * s[1]), b |-> ISqrtR(4 * s[2]),
                                    c |-> ISqrtR(4 * s[3])]), perm)
        With(perm) == Sorted(Take(l.BC_CA_AB, perm), perm)
    IN  IF l.all_lengths_different /\ noduplicates(l.BC_CA_AB, eps * TicksPerUnit)
        THEN With(argsort(l.BC_CA_AB))
        ELSE NoMatch

test_ORCI(l, u, eps) ==
    LET Flat(m) == m[1] \o m[2] \o m[3]
        Compared(r, cell, rows) ==
            IF allclose_all(Flat(cell.array), Flat(rows), eps) THEN Return(r.lat)
            ELSE Raise("AssertionError")
        Built(r, perm) ==
            IF r.exc # "none" THEN Raise(r.exc)
            ELSE Compared(r, tocell(r.lat), Take(u, perm))
        Sorted(s, perm) ==
            Built(New("ORCI", [a |-> ISqrtR(s[1]), b |-> ISqrtR(s[2]), c |-> ISqrtR(s[3])]),
                  perm)
        With(dims2) ==
            IF (\A i \in 1..3 : dims2[i] > 0) /\ noduplicates(dims2, eps * TicksPerUnit)
            THEN Sorted(Take(dims2, argsort(dims2)), argsort(dims2))
            ELSE NoMatch
    IN  IF l.all_lengths_equal
        THEN With(<<-2 * (l.BC_CA_AB[2] + l.BC_CA_AB[3]),
                    -2 * (l.BC_CA_AB[3] + l.BC_CA_AB[1]),
                    -2 * (l.BC_CA_AB[1] + l.BC_CA_AB[2])>>)
        ELSE NoMatch

\* arccos of a cosine outside [-1, 1] is NaN, which passes RHL.__init__
\* (nan >= 120 is false) and gets the variant RHL2.
test_RHL(l, eps) ==
    IF l.all_lengths_equal
    THEN IF l.ABC2[1] = 0 \/ Abs(l.BC_CA_AB[1]) > l.ABC2[1]
         THEN Return([type |-> "RHL", p |-> [a |-> l.ABC[1], alpha |-> NaN],
                      eps |-> DefaultEps, variant |-> "RHL2"])
         ELSE FromNew(New("RHL", [a |-> l.ABC[1],
                                  alpha |-> ArcCosTicks(CosRatio(l.BC_CA_AB[1], l.ABC2[1]))]))
    ELSE NoMatch

test_MCL(l, eps) ==
    LET dir == l.unequal_scalarprod_dir
        mcl_alpha == At(l.angles, dir)
        mcl_a == At(l.ABC, dir)
        mcl_b == Min2(At(l.ABC, dir - 1), At(l.ABC, dir - 2))
        mcl_c == Max2(At(l.ABC, dir - 1), At(l.ABC, dir - 2))
    IN  IF dir # None
        THEN IF /\ allclose(At(l.angles, dir - 1), 900, eps)
                /\ allclose(At(l.angles, dir - 2), 900, eps)
             THEN IF ~(mcl_alpha < 900) THEN Raise("AssertionError")
                  ELSE IF ~(mcl_a < mcl_c) THEN Raise("AssertionError")
                  ELSE FromNew(New("MCL", [a |-> mcl_a, b |-> mcl_b, c |-> mcl_c,
                                           alpha |-> mcl_alpha]))
             ELSE NoMatch
        ELSE NoMatch

\* mclc_b = sqrt(2 (L^2 + s)) and mclc_a = sqrt(4 L^2 - mclc_b^2); a NaN or
\* infinite cosine makes mclc_alpha NaN and fails the assertion, a NaN
\* mclc_a fails check_mcl.
test_MCLC(l, eps) ==
    LET cdir == l.unequal_length_dir
        mclc_c == At(l.ABC, cdir)
        Built(a2, b, alpha) ==
            IF ~(alpha < 900) THEN Raise("AssertionError")
            ELSE IF a2 < 0 THEN Raise("UnconventionalLattice")
            ELSE FromNew(New("MCLC", [a |-> ISqrtR(a2), b |-> b, c |-> mclc_c,
                                      alpha |-> alpha]))
        Angled(a2, b, t) ==
            IF b * mclc_c = 0 \/ 2 * Abs(t) > b * mclc_c THEN Raise("AssertionError")
            ELSE Built(a2, b, ArcCosTicks(CosRatio(2 * t, b * mclc_c)))
        With(L2, s, t) ==
            IF L2 + s < 0 THEN Raise("AssertionError")
            ELSE Angled(2 * (L2 - s), ISqrtR(2 * (L2 + s)), t)
    IN  IF cdir # None
        THEN With(At(l.ABC2, cdir - 1), At(l.BC_CA_AB, cdir), At(l.BC_CA_AB, cdir - 1))
        ELSE NoMatch

\* obj = check(TRI, A, B, C, *angles); a truthy obj runs into the undefined
\* name on the next line.
test_TRI(l, eps) ==
    LET Checked(chk) ==
            IF chk.exc # "none" THEN Raise(chk.exc)
            ELSE IF chk.obj THEN Raise("NameError")
            ELSE [NoMatch EXCEPT !.caught = chk.caught]
    IN  Checked(check(New("TRI", [a |-> l.ABC[1], b |-> l.ABC[2], c |-> l.ABC[3],
                                  alpha |-> l.angles[1], beta |-> l.angles[2],
                                  gamma |-> l.angles[3]]), 0, l.cellpar))

\* The last statement of get_bravais_lattice.
cannot_recognize_mut == Return(NoLattice)

cannot_recognize == Raise("RuntimeError")

----------------------------------------------------------------------------
(* One call of get_bravais_lattice, a statement group at a time.           *)

TestOrder_mut ==
    <<"RHL", "CUB", "FCC", "BCC", "BCT", "HEX", "TET", "ORCC", "ORC", "ORCF", "ORCI",
      "MCL", "MCLC", "TRI">>

\* The tests in the order of their statements.
TestOrder ==
    <<"CUB", "FCC", "BCC", "BCT", "HEX", "TET", "ORCC", "ORC", "ORCF", "ORCI", "RHL",
      "MCL", "MCLC", "TRI">>

IndexOf(s, f) == CHOOSE i \in 1..Len(s) : s[i] = f

\* Where control goes when the test f did not end the call: the next test,
\* or the raise statement after the last one.
After(f) ==
    IF IndexOf(TestOrder, f) = Len(TestOrder) THEN "end"
    ELSE TestOrder[IndexOf(TestOrder, f) + 1]

\* What the test f comes to for the locals l of the cell u.
Outcome(f, l, u, eps) ==
    CASE f = "CUB" -> test_CUB(l, eps)
      [] f = "FCC" -> test_FCC(l, eps)
      [] f = "BCC" -> test_BCC(l, eps)
      [] f = "BCT" -> test_BCT(l, eps)
      [] f = "HEX" -> test_HEX(l, eps)
      [] f = "TET" -> test_TET(l, eps)
      [] f = "ORCC" -> test_ORCC(l, eps)
      [] f = "ORC" -> test_ORC(l, eps)
      [] f = "ORCF" -> test_ORCF(l, u, eps)
      [] f = "ORCI" -> test_ORCI(l, u, eps)
      [] f = "RHL" -> test_RHL(l, eps)
      [] f = "MCL" -> test_MCL(l, eps)
      [] f = "MCLC" -> test_MCLC(l, eps)
      [] f = "TRI" -> test_TRI(l, eps)

MaxEps == 3

MaxShift == 1

\* The cells a call is made with: cells of every family, cells close to
\* one, and triclinic cells whose scalar products are all equal, of mixed
\* sign, or all different; each with its rows cycled k places and d added
\* to the coordinate j of the row i.
Cells ==
    LET Base ==
            {CUB_cell(300).array, FCC_cell(400).array, BCC_cell(400).array,
             BCT_cell(300, 400).array, BCT_cell(400, 300).array,
             HEX_cell(300, 400).array, TET_cell(300, 400).array,
             ORCC_cell(300, 400, 350).array, ORC_cell(200, 300, 400).array,
             ORCF_cell(300, 400, 500).array, ORCI_cell(200, 300, 400).array,
             RHL_cell(300, 700).array, MCL_cell(200, 300, 400, 700).array,
             MCLC_cell(300, 350, 400, 700).array,
             <<<<200, 0, 0>>, <<20, 300, 0>>, <<20, 12, 400>>>>,
             <<<<200, 0, 0>>, <<20, 300, 0>>, <<20, -20, 400>>>>,
             <<<<200, 0, 0>>, <<30, 300, 0>>, <<50, 60, 400>>>>,
             <<<<200, 0, 0>>, <<30, 300, 0>>, <<50, -60, 400>>>>,
             <<<<300, 0, 0>>, <<1, 300, 0>>, <<0, -1, 300>>>>,
             <<<<600, 0, 0>>, <<-2, 600, 0>>, <<-1, 0, 600>>>>}
        Cycled(u, k) == <<At(u, k), At(u, k + 1), At(u, k + 2)>>
        Shifted(u, i, j, d) == [u EXCEPT ![i][j] = @ + d]
    IN  {Shifted(Cycled(u, k), i, j, d) : u \in Base, k \in 0..2,
                                          i \in 1..3, j \in 1..3, d \in 0..MaxShift}

InitCls ==
    /\ call = NoCall
    /\ lat = NoLattice
    /\ exc = "none"
    /\ out = NoValue
    /\ nums = <<0, 0, 0>>
    /\ ceps = 0
    /\ cat = NoValue
    /\ uc = <<>>
    /\ loc = NoValue
    /\ pc = "idle"
    /\ caught = "none"
    /\ ret = NoValue

\* get_bravais_lattice(uc, eps) is called; uc is the cell after the
\* reduction, or the argument when the caller skips the reduction.
Call ==
    /\ pc = "idle"
    /\ \E u \in Cells, e \in 1..MaxEps :
           /\ uc' = u
           /\ ceps' = e
    /\ pc' = "locals"
    /\ UNCHANGED <<call, lat, exc, out, nums, cat, loc, caught, ret>>

\* The lattices that _test_all_variants yields, with a, b, c = 30, 40, 50
\* (ten times its lengths, which keeps the shape of every cell), and a TRI
\* lattice, of which it yields none.  a0 is 31.2.
Canonical ==
    {r.lat : r \in
        {New("CUB", [a |-> 300]), New("FCC", [a |-> 300]), New("BCC", [a |-> 300]),
         New("TET", [a |-> 300, c |-> 500]),
         New("BCT", [a |-> 600, c |-> 500]), New("BCT", [a |-> 300, c |-> 500]),
         New("ORC", [a |-> 300, b |-> 400, c |-> 500]),
         New("ORCF", [a |-> 156, b |-> 400, c |-> 500]),
         New("ORCF", [a |-> 375, b |-> 400, c |-> 500]),
         New("ORCF", [a |-> 312, b |-> 400, c |-> 500]),
         New("ORCI", [a |-> 300, b |-> 400, c |-> 500]),
         New("ORCC", [a |-> 300, b |-> 400, c |-> 500]),
         New("HEX", [a |-> 300, c |-> 500]),
         New("RHL", [a |-> 300, alpha |-> 550]), New("RHL", [a |-> 300, alpha |-> 1050]),
         New("MCL", [a |-> 300, b |-> 400, c |-> 500, alpha |-> 550]),
         New("MCLC", [a |-> 300, b |-> 400, c |-> 500, alpha |-> 800]),
         New("MCLC", [a |-> 540, b |-> 400, c |-> 1000, alpha |-> 800]),
         New("MCLC", [a |-> 400, b |-> 400, c |-> 440, alpha |-> 500]),
         New("TRI", [a |-> 300, b |-> 400, c |-> 500,
                     alpha |-> 1000, beta |-> 1000, gamma |-> 1000])}}

\* uc.niggli_reduce(): a cell of the same lattice; here the cell itself or
\* the cell with its rows cycled k places.
niggli_reduce(u, k) == <<At(u, k), At(u, k + 1), At(u, k + 2)>>

\* get_bravais_lattice(lat.tocell(), eps) for a constructed lattice lat.
CallCanonical ==
    /\ pc = "idle"
    /\ \E l \in Canonical, k \in 0..2, e \in 1..MaxEps :
           /\ l # NoLattice
           /\ lat' = l
           /\ uc' = niggli_reduce(tocell(l).array, k)
           /\ ceps' = e
    /\ pc' = "locals"
    /\ UNCHANGED <<call, exc, out, nums, cat, loc, caught, ret>>

\* cellpar, BC_CA_AB and the three categorisations; an assertion of
\* categorize_differences ends the call.
Locals ==
    /\ pc = "locals"
    /\ ret = NoValue
    /\ LET Bind(l) ==
               /\ loc' = l
               /\ IF l.exc # "none"
                  THEN /\ ret' = [k \in {"kind", "lat", "info", "exc"} |-> Raise(l.exc)[k]]
                       /\ pc' = pc
                  ELSE /\ ret' = ret
                       /\ pc' = TestOrder[1]
       IN  Bind(locals(uc, ceps))
    /\ UNCHANGED <<call, lat, exc, out, nums, ceps, cat, uc, caught>>

\* The test f, which came to o, ends the call or passes it on.
Step(f, o) ==
    /\ ret = NoValue
    /\ caught' = IF o.caught # "none" THEN o.caught ELSE caught
    /\ IF o.kind = "next"
       THEN /\ pc' = After(f)
            /\ ret' = ret
       ELSE /\ pc' = pc
            /\ ret' = [k \in {"kind", "lat", "info", "exc"} |-> o[k]]
    /\ UNCHANGED <<call, lat, exc, out, nums, ceps, cat, uc, loc>>

TestCUB == pc = "CUB" /\ Step("CUB", test_CUB(loc, ceps))

TestFCC == pc = "FCC" /\ Step("FCC", test_FCC(loc, ceps))

TestBCC == pc = "BCC" /\ Step("BCC", test_BCC(loc, ceps))

TestBCT == pc = "BCT" /\ Step("BCT", test_BCT(loc, ceps))

TestHEX == pc = "HEX" /\ Step("HEX", test_HEX(loc, ceps))

TestTET == pc = "TET" /\ Step("TET", test_TET(loc, ceps))

TestORCC == pc = "ORCC" /\ Step("ORCC", test_ORCC(loc, ceps))

TestORC == pc = "ORC" /\ Step("ORC", test_ORC(loc, ceps))

TestORCF == pc = "ORCF" /\ Step("ORCF", test_ORCF(loc, uc, ceps))

TestORCI == pc = "ORCI" /\ Step("ORCI", test_ORCI(loc, uc, ceps))

TestRHL == pc = "RHL" /\ Step("RHL", test_RHL(loc, ceps))

TestMCL == pc = "MCL" /\ Step("MCL", test_MCL(loc, ceps))

TestMCLC == pc = "MCLC" /\ Step("MCLC", test_MCLC(loc, ceps))

TestTRI == pc = "TRI" /\ Step("TRI", test_TRI(loc, ceps))

\* raise RuntimeError('Cannot recognize cell at all somehow!')
CannotRecognize ==
    /\ pc = "end"
    /\ ret = NoValue
    /\ ret' = [k \in {"kind", "lat", "info", "exc"} |-> cannot_recognize[k]]
    /\ UNCHANGED <<call, lat, exc, out, nums, ceps, cat, uc, loc, pc, caught>>

NextCls ==
    \/ Call
    \/ CallCanonical
    \/ Locals
    \/ TestCUB
    \/ TestFCC
    \/ TestBCC
    \/ TestBCT
    \/ TestHEX
    \/ TestTET
    \/ TestORCC
    \/ TestORC
    \/ TestORCF
    \/ TestORCI
    \/ TestRHL
    \/ TestMCL
    \/ TestMCLC
    \/ TestTRI
    \/ CannotRecognize

SpecCls == InitCls /\ [][NextCls]_vars

----------------------------------------------------------------------------
(* Properties of the lattice objects (checked under SpecLat)               *)

Ordered(p) == p.a < p.b /\ p.b < p.c

\* C1: for every family and every declared variant the special-points
\* formula gives exactly one point per special-point label of the variant,
\* and get_special_points_array of a constructed lattice never fails its
\* length assertion.
C1_SpecialPointsMatchLabels ==
    /\ Fresh => \A f \in SeqRange(Families) : \A i \in 1..Len(variants[f]) :
          LET v == variants[f][i]
              sp == special_points_formula(f, v.name)
              labels == parse_path_string(v.special_point_names)
          IN  /\ sp.exc = "none"
              /\ Len(labels) = 1
              /\ labels # <<InvalidPath>>
              /\ Len(sp.points) = Len(labels[1])
    /\ out.kind = "points" =>
          /\ exc = "none"
          /\ Len(out.points) = Len(kpoint_labels(lat).labels)

C1_Witness ==
    /\ out.kind = "points"
    /\ lat.variant = "BCT1"
    /\ Len(out.points) = 7

\* C2: constructing ORC with parameters that violate a < b < c raises
\* UnconventionalLattice, so every ORC object has a < b < c.
C2_OrcIsOrdered ==
    call.type = "ORC" =>
        /\ lat # NoLattice => Ordered(lat.p)
        /\ ~Ordered(call.p) => exc = "UnconventionalLattice"

\* C3 as stated: ORCF, ORCI and ORCC raise UnconventionalLattice whenever
\* a < b < c does not hold and produce a lattice only when it holds.
C3_CentredOrthorhombicOrdered ==
    call.type \in {"ORCF", "ORCI", "ORCC"} =>
        /\ lat # NoLattice => Ordered(call.p)
        /\ ~Ordered(call.p) => exc = "UnconventionalLattice"

\* C3 amended: ORCF and ORCI raise UnconventionalLattice exactly when
\* a < b < c does not hold; ORCC raises it exactly when a < b does not hold
\* and puts no condition on c; a lattice is produced in all other cases.
C3_CentredOrthorhombicAmended ==
    /\ call.type \in {"ORCF", "ORCI"} =>
          /\ Ordered(call.p) => (lat # NoLattice /\ lat.p = call.p /\ exc = "none")
          /\ ~Ordered(call.p) => (lat = NoLattice /\ exc = "UnconventionalLattice")
    /\ call.type = "ORCC" =>
          /\ call.p.a < call.p.b => (lat # NoLattice /\ lat.p = call.p /\ exc = "none")
          /\ ~(call.p.a < call.p.b) => (lat = NoLattice /\ exc = "UnconventionalLattice")

C3_Witness ==
    /\ call.type = "ORCC"
    /\ lat.type = "ORCC"
    /\ lat.p.c < lat.p.b

\* C4: a monoclinic lattice (MCL or MCLC) is constructed only when a <= c,
\* b <= c and alpha < 90 degrees; every other parameter combination raises
\* UnconventionalLattice and produces no lattice.
C4_MonoclinicChecked ==
    call.type \in {"MCL", "MCLC"} =>
        LET good == /\ call.p.a <= call.p.c
                    /\ call.p.b <= call.p.c
                    /\ call.p.alpha < 900
        IN  /\ lat # NoLattice => good
            /\ ~good => (lat = NoLattice /\ exc = "UnconventionalLattice")
            /\ good => exc # "UnconventionalLattice"

C4_Witness ==
    /\ call.type = "MCLC"
    /\ call.p.alpha = 900
    /\ call.p.a <= call.p.c
    /\ call.p.b <= call.p.c
    /\ exc = "UnconventionalLattice"

\* C5: BCT(a = 2k, c = k) has variant BCT1 and BCT(a = k, c = 2k) has
\* variant BCT2; in general the variant is BCT1 exactly when c < a and BCT2
\* otherwise (c = a included).
C5_BCTVariant ==
    call.type = "BCT" =>
        /\ lat.type = "BCT"
        /\ lat.variant = "BCT1" <=> call.p.c < call.p.a
        /\ lat.variant = "BCT2" <=> call.p.c >= call.p.a
        /\ call.p.a = 2 * call.p.c => lat.variant = "BCT1"
        /\ call.p.c = 2 * call.p.a => lat.variant = "BCT2"

C5_Witness ==
    /\ lat.type = "BCT"
    /\ lat.p.c = lat.p.a
    /\ lat.variant = "BCT2"

----------------------------------------------------------------------------
(* Properties of categorize_differences (checked under SpecCat)            *)

\* The differences |b - c|, |c - a|, |a - b| in the order of the list eq.
PairDiffs(numbers) ==
    <<Abs(numbers[2] - numbers[3]), Abs(numbers[3] - numbers[1]),
      Abs(numbers[1] - numbers[2])>>

\* C6 as stated: two numbers whose difference is exactly eps are classified
\* as equal, two whose difference is greater than eps as different.
C6_ExactlyEpsIsEqual ==
    cat.kind = "categories" =>
        \A i \in 1..3 :
            /\ PairDiffs(nums)[i] = ceps => cat.eq[i]
            /\ PairDiffs(nums)[i] > ceps => ~cat.eq[i]

\* C6 amended: two numbers are classified as equal exactly when their
\* difference is less than eps; a difference of exactly eps, like any
\* greater one, classifies them as different.
C6_LessThanEpsIsEqual ==
    cat.kind = "categories" =>
        /\ \A i \in 1..3 :
              /\ PairDiffs(nums)[i] < ceps => cat.eq[i]
              /\ PairDiffs(nums)[i] >= ceps => ~cat.eq[i]
        /\ (\A i \in 1..3 : PairDiffs(nums)[i] >= ceps) => cat.all_different

C6_Witness ==
    /\ cat.kind = "categories"
    /\ PairDiffs(nums)[1] = ceps
    /\ ~cat.eq[1]
    /\ PairDiffs(nums)[3] < ceps
    /\ cat.eq[3]

----------------------------------------------------------------------------
(* Properties of get_bravais_lattice (checked under SpecCls)               *)

C8_TRIFallbackReturned ==
    (ret # NoValue /\ pc \in {"TRI", "end"}) =>
        /\ ret.kind = "return"
        /\ ret.lat.type = "TRI"
        /\ ret.lat.p = [a |-> loc.cellpar[1], b |-> loc.cellpar[2], c |-> loc.cellpar[3],
                        alpha |-> loc.cellpar[4], beta |-> loc.cellpar[5],
                        gamma |-> loc.cellpar[6]]

\* C9: a call in which no test matches ends with RuntimeError; a call never
\* ends returning nothing: it returns a lattice or raises an exception.
C9_CannotRecognize ==
    (pc # "idle" /\ ret # NoValue) =>
        /\ ret.kind \in {"return", "raise"}
        /\ ret.kind = "return" => (ret.lat # NoLattice /\ ret.exc = "none")
        /\ ret.kind = "raise" => (ret.lat = NoLattice /\ ret.exc # "none")
        /\ (/\ pc # "locals"
            /\ \A i \in 1..Len(TestOrder) :
                   Outcome(TestOrder[i], loc, uc, ceps).kind = "next") =>
               (ret.kind = "raise" /\ ret.exc = "RuntimeError")

\* Every test was tried, check() caught nothing, and the call ended with
\* RuntimeError.
C9_Witness ==
    /\ pc = "end"
    /\ ret # NoValue
    /\ caught = "none"
    /\ \A i \in 1..Len(TestOrder) : Outcome(TestOrder[i], loc, uc, ceps).kind = "next"
    /\ ret.exc = "RuntimeError"

\* C10 as stated: an UnconventionalLattice raised by a family constructor
\* during the call reaches the caller as UnconventionalLattice.
C10_UnconventionalReachesCaller ==
    (ret # NoValue /\ caught = "UnconventionalLattice") =>
        ret.exc = "UnconventionalLattice"

\* C10 amended: an UnconventionalLattice raised by a constructor that
\* check() calls is caught, the test does not match, and the call ends with
\* RuntimeError; the caller gets UnconventionalLattice only from the ORCC,
\* ORCF, ORCI and MCLC tests, which construct their lattice outside
\* check(), and then check() has caught nothing.
C10_UnconventionalOutsideCheck ==
    (pc # "idle" /\ ret # NoValue) =>
        /\ caught = "UnconventionalLattice" =>
               (pc = "end" /\ ret.kind = "raise" /\ ret.exc = "RuntimeError")
        /\ ret.exc = "UnconventionalLattice" =>
               (caught = "none" /\ pc \in {"ORCC", "ORCF", "ORCI", "MCLC"})
        /\ caught \in {"none", "UnconventionalLattice"}

\* TRI raised UnconventionalLattice inside check() and the caller got
\* RuntimeError.
C10_Witness ==
    /\ pc = "end"
    /\ ret # NoValue
    /\ caught = "UnconventionalLattice"
    /\ ret.exc = "RuntimeError"
    /\ New("TRI", [a |-> loc.cellpar[1], b |-> loc.cellpar[2], c |-> loc.cellpar[3],
                   alpha |-> loc.cellpar[4], beta |-> loc.cellpar[5],
                   gamma |-> loc.cellpar[6]]).exc = "UnconventionalLattice"

\* C11: every normal return of get_bravais_lattice is a pair of an instance
\* of one of the 14 families (an object with that family's parameters and
\* one of its declared variants, never a class or a parameter dictionary)
\* and an empty mapping.
C11_ReturnsInstanceAndEmptyDict ==
    (pc # "idle" /\ ret # NoValue /\ ret.kind = "return") =>
        /\ ret.lat.type \in SeqRange(Families)
        /\ DOMAIN ret.lat.p = SeqRange(parameters[ret.lat.type])
        /\ \E i \in 1..Len(variants[ret.lat.type]) :
               variants[ret.lat.type][i].name = ret.lat.variant
        /\ ret.info = EmptyDict
        /\ ret.exc = "none"
        /\ pc # "TRI"

\* The MCLC test, the last that can return, returned an MCLC object and {}.
C11_Witness ==
    /\ pc = "MCLC"
    /\ ret # NoValue
    /\ ret.kind = "return"
    /\ ret.lat.type = "MCLC"
    /\ ret.lat.variant \in {"MCLC1", "MCLC2", "MCLC3", "MCLC4", "MCLC5"}
    /\ ret.info = EmptyDict

\* C12: round trip: when get_bravais_lattice is called with the cell of a
\* constructed lattice, the call returns a lattice of that lattice's type.
C12_RoundTrip ==
    (lat # NoLattice /\ ret # NoValue) =>
        (ret.kind = "return" /\ ret.lat.type = lat.type)

\* C13 as stated: a family constructor called with its parameters and an eps
\* keyword constructs a lattice that has that eps.
C13_EpsKeywordAccepted ==
    (call # NoCall /\ DOMAIN call.p = SeqRange(parameters[call.type]) \cup {"eps"}) =>
        (lat # NoLattice /\ lat.eps = call.p.eps.v)

\* C13 amended: a family constructor called with an eps keyword fails with
\* TypeError and constructs no lattice; every constructed lattice has the
\* default eps of 2e-4 and the variant that its family selects with it.
C13_EpsKeywordRejected ==
    call # NoCall =>
        /\ "eps" \in DOMAIN call.p => (lat = NoLattice /\ exc = "TypeError")
        /\ lat # NoLattice =>
               /\ lat.eps = DefaultEps
               /\ lat.variant = variant_name(lat.type, lat.p, DefaultEps).name

\* ORCF(a=12, b=15, c=20, eps=...) was called and failed with TypeError.
C13_Witness ==
    /\ call.type = "ORCF"
    /\ DOMAIN call.p = {"a", "b", "c", "eps"}
    /\ call.p.a.v = 12
    /\ call.p.a.py = "int"
    /\ lat = NoLattice
    /\ exc = "TypeError"

\* C14: a constructed lattice has exactly its family's parameter names, each
\* with the float of the argument; a call with a missing, an extra or a
\* wrongly named parameter fails (with TypeError) and constructs no lattice.
C14_ExactParameterNames ==
    call # NoCall =>
        /\ lat # NoLattice =>
               /\ lat.type = call.type
               /\ DOMAIN lat.p = SeqRange(parameters[lat.type])
               /\ DOMAIN call.p = DOMAIN lat.p
               /\ \A k \in DOMAIN lat.p :
                      lat.p[k] = IF call.p[k].py = "int"
                                 THEN call.p[k].v * TicksPerUnit ELSE call.p[k].v
        /\ DOMAIN call.p # SeqRange(parameters[call.type]) =>
               (lat = NoLattice /\ exc = "TypeError")

\* TET(a=12, d=25), with d for c, failed with TypeError.
C14_Witness ==
    /\ call.type = "TET"
    /\ DOMAIN call.p = {"a", "d"}
    /\ call.p.a = [py |-> "int", v |-> 12]
    /\ lat = NoLattice
    /\ exc = "TypeError"

\* C15: the band path made from a path string that follows the grammar and
\* a mapping that has all its labels holds, from resolve_kpt_path_string,
\* one label list and one coordinate list per comma-separated segment, in
\* the order of the segments; the labels of the i-th list spell the i-th
\* segment, and the j-th coordinate of the i-th list is the mapping's value
\* for the j-th label.
C15_ResolveFollowsSegments ==
    out.kind = "bandpath" =>
        LET RECURSIVE Join(_)
            Join(labels) == IF labels = <<>> THEN <<>>
                            ELSE Head(labels) \o Join(Tail(labels))
            segs == SplitComma(out.labelseq, <<>>, <<>>)
        IN  /\ Len(out.pathnames) = Len(segs)
            /\ Len(out.pathcoords) = Len(segs)
            /\ \A i \in 1..Len(segs) :
                   /\ Join(out.pathnames[i]) = segs[i]
                   /\ Len(out.pathcoords[i]) = Len(out.pathnames[i])
                   /\ \A j \in 1..Len(out.pathnames[i]) :
                          /\ Len(out.pathnames[i][j]) \in {1, 2}
                          /\ \E k \in 1..Len(out.special_points) :
                                 out.special_points[k] =
                                     <<out.pathnames[i][j], out.pathcoords[i][j]>>

\* "GX,X1G" was resolved against a mapping with G, X and X1.
C15_Witness ==
    /\ out.kind = "bandpath"
    /\ out.labelseq = <<"G", "X", ",", "X", "1", "G">>
    /\ out.pathnames = << <<<<"G">>, <<"X">>>>, <<<<"X", "1">>, <<"G">>>> >>
    /\ out.pathcoords = << <<<<"0", "0", "0">>, <<".5", "0", "0">>>>,
                           <<<<".5", ".5", "0">>, <<"0", "0", "0">>>> >>

C18_NeverExactlyTwoEqual ==
    (pc # "idle" /\ loc # NoValue) =>
        /\ categorize_differences(loc.ABC, ceps).exc = "none"
        /\ categorize_differences(loc.angles, ceps).exc = "none"
        /\ categorize_differences(loc.BC_CA_AB, ceps * TicksPerUnit).exc = "none"
        /\ ~(pc = "locals" /\ ret # NoValue /\ ret.exc = "AssertionError")


----------------------------------------------------------------------------
(* Every declared variant is selectable                                    *)

\* Parameters that select each declared variant, family by family in the
\* order of the family's variants: those of _test_all_variants with
\* a, b, c = 30, 40, 50 (ten times its lengths; a0 is 31.2), and parameters
\* for the variants it leaves out.  MCLC2 has a = b sin(alpha), MCLC4 has
\* b cos(alpha) / c + (b sin(alpha) / a)^2 = 1, TRI2a and TRI2b have
\* cos(gamma) = cos(alpha) cos(beta).
test_all_variants ==
    [CUB |-> <<[a |-> 300]>>,
     FCC |-> <<[a |-> 300]>>,
     BCC |-> <<[a |-> 300]>>,
     TET |-> <<[a |-> 300, c |-> 500]>>,
     BCT |-> <<[a |-> 600, c |-> 500], [a |-> 300, c |-> 500]>>,
     ORC |-> <<[a |-> 300, b |-> 400, c |-> 500]>>,
     ORCF |-> <<[a |-> 156, b |-> 400, c |-> 500],
                [a |-> 375, b |-> 400, c |-> 500],
                [a |-> 312, b |-> 400, c |-> 500]>>,
     ORCI |-> <<[a |-> 300, b |-> 400, c |-> 500]>>,
     ORCC |-> <<[a |-> 300, b |-> 400, c |-> 500]>>,
     HEX |-> <<[a |-> 300, c |-> 500]>>,
     RHL |-> <<[a |-> 300, alpha |-> 550], [a |-> 300, alpha |-> 1050]>>,
     MCL |-> <<[a |-> 300, b |-> 400, c |-> 500, alpha |-> 550]>>,
     MCLC |-> <<[a |-> 300, b |-> 400, c |-> 500, alpha |-> 800],
                [a |-> 5, b |-> 10, c |-> 10, alpha |-> 300],
                [a |-> 540, b |-> 400, c |-> 1000, alpha |-> 800],
                [a |-> 10, b |-> 10, c |-> 20, alpha |-> 600],
                [a |-> 400, b |-> 400, c |-> 440, alpha |-> 500]>>,
     TRI |-> <<[a |-> 5, b |-> 5, c |-> 5, alpha |-> 600, beta |-> 600, gamma |-> 600],
               [a |-> 5, b |-> 5, c |-> 5, alpha |-> 450, beta |-> 450, gamma |-> 600],
               [a |-> 5, b |-> 5, c |-> 5, alpha |-> 1200, beta |-> 1200, gamma |-> 900],
               [a |-> 5, b |-> 5, c |-> 5, alpha |-> 1350, beta |-> 1350, gamma |-> 600]>>]

\* C19: every declared variant of every family is selectable, and the
\* variant of a constructed lattice is one of its family's declared
\* variants.  Whenever a lattice of family F has been constructed, its
\* variant is among the names F declares, and, when the constructor returns,
\* each variant V that F declares has parameters with which the constructor
\* of F succeeds and gives a lattice of variant V.
C19_EveryVariantSelectable ==
    lat # NoLattice =>
        /\ \E j \in 1..Len(variants[lat.type]) :
               lat.variant = variants[lat.type][j].name
        /\ out = NoValue =>
               /\ Len(test_all_variants[lat.type]) = Len(variants[lat.type])
               /\ \A j \in 1..Len(variants[lat.type]) :
                      /\ New(lat.type, test_all_variants[lat.type][j]).exc = "none"
                      /\ New(lat.type, test_all_variants[lat.type][j]).lat.variant
                             = variants[lat.type][j].name

\* A triclinic lattice with cos(gamma) = cos(alpha) cos(beta) has been
\* constructed: its variant is TRI2a, which _test_all_variants leaves out.
C19_Witness ==
    /\ lat # NoLattice
    /\ lat.type = "TRI"
    /\ lat.p.alpha = 450 /\ lat.p.beta = 450 /\ lat.p.gamma = 600
    /\ lat.variant = "TRI2a"
    /\ exc = "none"

----------------------------------------------------------------------------
(* The registry after module initialisation                                *)

\* C20 as stated: the registry holds exactly 14 families, each registered
\* once under its type name, the family of every constructed lattice is one
\* of them, and the declared variants of all families together number 18.
C20_RegistryCounts ==
    LET RECURSIVE Total(_)
        Total(n) == IF n = 0 THEN 0 ELSE Total(n - 1) + Len(variants[Families[n]])
    IN  /\ Len(Families) = 14
        /\ Cardinality(SeqRange(Families)) = 14
        /\ DOMAIN variants = SeqRange(Families)
        /\ DOMAIN parameters = SeqRange(Families)
        /\ Total(Len(Families)) = 18
        /\ lat # NoLattice => lat.type \in SeqRange(Families)

\* C20, amended: the registry holds exactly 14 families, each registered
\* once under its type name, the family of every constructed lattice is one
\* of them, and the declared variants of all families together number 25
\* under 25 different names.
C20_RegistryCountsAmended ==
    LET RECURSIVE Total(_)
        Total(n) == IF n = 0 THEN 0 ELSE Total(n - 1) + Len(variants[Families[n]])
        Names == UNION {{variants[f][j].name : j \in 1..Len(variants[f])} :
                           f \in SeqRange(Families)}
    IN  /\ Len(Families) = 14
        /\ Cardinality(SeqRange(Families)) = 14
        /\ DOMAIN variants = SeqRange(Families)
        /\ DOMAIN parameters = SeqRange(Families)
        /\ Total(Len(Families)) = 25
        /\ Cardinality(Names) = 25
        /\ lat # NoLattice => lat.type \in SeqRange(Families)

\* A lattice of the family registered last has been constructed with the
\* variant declared last, the 25th.
C20_Witness ==
    /\ lat # NoLattice
    /\ lat.type = Families[Len(Families)]
    /\ lat.variant = variants[lat.type][Len(variants[lat.type])].name
    /\ lat.variant = "TRI2b"

----------------------------------------------------------------------------
(* The three outcomes of categorize_differences                            *)

\* C21: whenever categorize_differences returns, exactly one of its three
\* outcomes holds (all equal, all different, or a distinguished direction),
\* and when it returns direction i the two elements other than i differ by
\* less than eps while element i differs from each of them by at least eps.
C21_ExactlyOneOutcome ==
    (cat.kind = "categories" /\ cat.exc = "none") =>
        /\ Cardinality({k \in 1..3 :
               <<cat.all_equal, cat.all_different, cat.funny_direction # None>>[k]}) = 1
        /\ cat.funny_direction # None =>
               /\ cat.funny_direction \in 0..2
               /\ \A k \in 1..3 :
                      IF k = cat.funny_direction + 1
                      THEN PairDiffs(nums)[k] < ceps
                      ELSE PairDiffs(nums)[k] >= ceps

\* The call returned the last direction: the first two numbers are within
\* eps of each other and the third is at least eps from both.
C21_Witness ==
    /\ cat.kind = "categories"
    /\ cat.exc = "none"
    /\ cat.funny_direction = 2
    /\ Abs(nums[1] - nums[2]) < ceps
    /\ Abs(nums[3] - nums[1]) >= ceps
    /\ Abs(nums[3] - nums[2]) >= ceps
    /\ nums[1] # nums[2]

----------------------------------------------------------------------------
(* The TET branch of get_bravais_lattice                                   *)

\* C22: whenever the cell has all three angles within eps of 90 degrees and
\* exactly one distinguished length, and no earlier test returned, the call
\* returns a TET lattice with a equal to the repeated length and c equal to
\* the distinguished length, and the branch does not end in an assertion
\* failure.
C22_TETBranch ==
    (/\ loc # NoValue
     /\ loc.exc = "none"
     /\ pc \in {"TET", "ORCC", "ORC", "ORCF", "ORCI", "RHL", "MCL", "MCLC", "TRI", "end"}
     /\ pc = "TET" => ret # NoValue
     /\ allclose_all(loc.angles, <<900, 900, 900>>, ceps)
     /\ loc.unequal_length_dir # None) =>
        /\ pc = "TET"
        /\ ret.kind = "return"
        /\ ret.lat.type = "TET"
        /\ ret.lat.p.a \in {At(loc.ABC, loc.unequal_length_dir + 1),
                            At(loc.ABC, loc.unequal_length_dir + 2)}
        /\ ret.lat.p.c = At(loc.ABC, loc.unequal_length_dir)

----------------------------------------------------------------------------
(* The ORCF branch of get_bravais_lattice                                  *)

\* C23: whenever the cell has all-different lengths and no duplicate scalar
\* products, and no earlier test returned, the call returns an ORCF lattice
\* whose canonical cell has, within eps, the six cell parameters of the
\* cell with its rows permuted by the ascending order of the scalar
\* products; neither the constructor nor the assertion of the branch fails.
C23_ORCFBranch ==
    (/\ loc # NoValue
     /\ loc.exc = "none"
     /\ pc \in {"ORCF", "ORCI", "RHL", "MCL", "MCLC", "TRI", "end"}
     /\ pc = "ORCF" => ret # NoValue
     /\ loc.all_lengths_different
     /\ noduplicates(loc.BC_CA_AB, ceps * TicksPerUnit)) =>
        /\ pc = "ORCF"
        /\ ret.kind = "return"
        /\ ret.lat.type = "ORCF"
        /\ allclose_all(Cellpar(tocell(ret.lat).array),
                        Cellpar(Take(uc, argsort(loc.BC_CA_AB))), ceps)

----------------------------------------------------------------------------
(* The RHL branch of get_bravais_lattice                                   *)

----------------------------------------------------------------------------
(* Variant selection of ORCF and MCLC                                      *)

\* C25: for ORCF parameters with a < b < c, variant selection is total and
\* exclusive on diff = 1/a^2 - 1/b^2 - 1/c^2: the variant is ORCF3 exactly
\* when |diff| < eps, ORCF1 exactly when diff >= eps and ORCF2 exactly when
\* diff <= -eps.  With n = b^2 c^2 - a^2 c^2 - a^2 b^2 and d = a^2 b^2 c^2
\* in ticks, diff is 100 n / d and eps is 1e-4 DefaultEps: |diff| < eps is
\* |n| * 1e6 < DefaultEps * d.
C25_ORCFVariantSelection ==
    LET Selected(n, d, small) ==
            /\ lat # NoLattice
            /\ exc = "none"
            /\ lat.variant \in {"ORCF1", "ORCF2", "ORCF3"}
            /\ lat.variant = "ORCF3" <=> small
            /\ lat.variant = "ORCF1" <=> (~small /\ n > 0)
            /\ lat.variant = "ORCF2" <=> (~small /\ n < 0)
        Diff(n, d) ==
            Selected(n, d, Abs(n) < 1000 /\ Abs(n) * 1000000 < DefaultEps * d)
        Squares(a2, b2, c2) ==
            Diff(b2 * c2 - a2 * c2 - a2 * b2, a2 * b2 * c2)
    IN  (call.type = "ORCF" /\ 0 < call.p.a /\ call.p.a < call.p.b /\ call.p.b < call.p.c) =>
            Squares(call.p.a * call.p.a, call.p.b * call.p.b, call.p.c * call.p.c)

\* ORCF(1.2, 1.5, 2.0) has been constructed: diff is zero and the variant
\* is ORCF3.
C25_Witness ==
    /\ call.type = "ORCF"
    /\ call.p = [a |-> 12, b |-> 15, c |-> 20]
    /\ lat # NoLattice
    /\ lat.variant = "ORCF3"

\* C26: for MCLC parameters accepted by the monoclinic check, variant
\* selection yields exactly one of MCLC1..MCLC5, decided from the reciprocal
\* angle kgamma and num = b cos(alpha) / c + b^2 sin(alpha)^2 / a^2: MCLC2
\* when |kgamma - 90| < eps, MCLC1 when kgamma > 90 otherwise, and for
\* kgamma < 90 MCLC4 when |num - 1| < eps, MCLC3 when num < 1, MCLC5 when
\* num > 1.  The cosine of kgamma is kn / kd with
\* kn = a^2 - b^2 sin(alpha)^2 and kd = a^2 + b^2 sin(alpha)^2, and
\* |kgamma - 90| < eps is |kn| / kd < sin(eps), 1 / sin(1e-4 degree) being
\* 572958.
C26_MCLCVariantSelection ==
    LET Selected(near, kn, num) ==
            /\ lat # NoLattice
            /\ exc = "none"
            /\ lat.variant \in {"MCLC1", "MCLC2", "MCLC3", "MCLC4", "MCLC5"}
            /\ lat.variant = "MCLC2" <=> near
            /\ lat.variant = "MCLC1" <=> (~near /\ kn < 0)
            /\ lat.variant = "MCLC4" <=>
                   (~near /\ kn > 0 /\ Abs(num - CosScale) < DefaultEps)
            /\ lat.variant = "MCLC3" <=>
                   (~near /\ kn > 0 /\ ~(Abs(num - CosScale) < DefaultEps)
                    /\ num < CosScale)
            /\ lat.variant = "MCLC5" <=>
                   (~near /\ kn > 0 /\ ~(Abs(num - CosScale) < DefaultEps)
                    /\ num > CosScale)
        Reciprocal(kn, kd, num) ==
            Selected(Abs(kn) < 1000 /\ Abs(kn) * 572958 < DefaultEps * kd, kn, num)
        Squared(a2, b2, b, c, cosa, sina2) ==
            Reciprocal(a2 * CosScale - b2 * sina2, a2 * CosScale + b2 * sina2,
                       RDiv(b * cosa, c) + RDiv(b2 * sina2, a2))
    IN  (/\ call.type = "MCLC"
         /\ 0 < call.p.a /\ 0 < call.p.b
         /\ call.p.a <= call.p.c /\ call.p.b <= call.p.c
         /\ 0 < call.p.alpha /\ call.p.alpha < 900) =>
            Squared(call.p.a * call.p.a, call.p.b * call.p.b, call.p.b, call.p.c,
                    Cos4(call.p.alpha),
                    RDiv(Sin4(call.p.alpha) * Sin4(call.p.alpha), CosScale))

\* MCLC(1, 1, 2, 60) has been constructed: kgamma is below 90 degrees,
\* num is 0.25 + 0.75 = 1 and the variant is MCLC4.
C26_Witness ==
    /\ call.type = "MCLC"
    /\ call.p = [a |-> 10, b |-> 10, c |-> 20, alpha |-> 600]
    /\ lat # NoLattice
    /\ lat.variant = "MCLC4"

----------------------------------------------------------------------------
(* The assertion of TRI._variant_name                                      *)

\* C27: TRI variant selection never reaches its assertion: the construction
\* of a TRI lattice ends with one of the variants TRI1a, TRI1b, TRI2a and
\* TRI2b or with UnconventionalLattice, never with AssertionError.
C27_TRIAssertionUnreachable ==
    call.type = "TRI" =>
        /\ exc # "AssertionError"
        /\ exc \in {"none", "UnconventionalLattice"}
        /\ exc = "none" =>
               /\ lat # NoLattice
               /\ lat.variant \in {"TRI1a", "TRI1b", "TRI2a", "TRI2b"}

----------------------------------------------------------------------------
(* The operations leave the lattice, the registry and the cell alone       *)

\* C28: no operation on a constructed lattice (tocell, cellpar,
\* get_variant, get_special_points, get_special_points_array, bandpath,
\* plot_bz) changes the lattice's parameter mapping, its eps or its
\* resolved variant, and no step of get_bravais_lattice changes the cell it
\* was called with; the lattice stays the one its constructor built.
C28_OperationsPreserveLattice ==
    [][/\ lat # NoLattice =>
              /\ lat'.p = lat.p
              /\ lat'.eps = lat.eps
              /\ lat'.variant = lat.variant
              /\ lat' = lat
       /\ uc # <<>> => uc' = uc
       /\ call # NoCall => call' = call]_vars

\* get_variant() has been called on a constructed lattice with two
\* variants: it answered the variant the lattice has, and the lattice still
\* has the parameters of the constructor call.
C28_Witness ==
    /\ lat # NoLattice
    /\ out.kind = "variant"
    /\ out.name = lat.variant
    /\ lat.variant = "BCT2"
    /\ lat.p = call.p
    /\ lat.eps = DefaultEps

----------------------------------------------------------------------------
(* The default paths use the variant's own labels                          *)

----------------------------------------------------------------------------
(* Serialisation of a BandPath                                             *)

\* C30: serialisation round trip.  Whenever todict has been called on a
\* BandPath it has returned a dictionary tagged "bandpath" that holds the
\* BandPath's cell, scaled k-points, special points and label sequence, and
\* whenever fromdict has been called on such a dictionary it has returned a
\* BandPath with the same four values and left the dictionary as it was.
C30_SerialisationRoundTrip ==
    /\ ret.kind = "todict" =>
           /\ ret.exc = "none"
           /\ ret.dict["_ase_objtype"] = "bandpath"
           /\ \A k \in {"cell", "scaled_kpts", "special_points", "labelseq"} :
                  ret.dict[k] = out[k]
    /\ (ret.kind = "fromdict" /\ "_ase_objtype" \in DOMAIN loc
            /\ loc["_ase_objtype"] = "bandpath") =>
           /\ ret.exc = "none"
           /\ \A k \in {"cell", "scaled_kpts", "special_points", "labelseq"} :
                  ret.bp[k] = out[k]
           /\ ret.d = loc
====
